---- MODULE Spec2Model ----
(***************************************************************************)
(* Verification model of dlrobson/finance_forecast (Python).               *)
(*                                                                         *)
(* Objects of the program are records held in one variable each; the      *)
(* fields keep the attribute names of the source.  Every public method is  *)
(* one action; `call` records the last method call (name, argument,       *)
(* returned value and the receiver's state before the call), so that the  *)
(* contract of a method is a predicate over one state.                    *)
(*                                                                         *)
(* Numbers.  The program computes in Python floats.  The model computes    *)
(* in integers: tax rates and interest rates are percentages, money is a  *)
(* whole number of the smallest unit of the component (cents for the      *)
(* mortgage, dollars for the accounts), and every division truncates.     *)
(***************************************************************************)
EXTENDS Integers, Sequences, FiniteSets

VARIABLES taxes, mortgage, payoff, history, account, call, persons, unit, solver

vars == <<taxes, mortgage, payoff, history, account, call, persons, unit,
         solver>>

Min(a, b) == IF a < b THEN a ELSE b

Max(a, b) == IF a > b THEN a ELSE b

\* The value a variable holds in a specification that never touches its object.
Unused == [unused |-> TRUE]

NoCall == [name |-> "none", arg |-> 0, ret |-> 0, gain |-> 0, none |-> FALSE,
           pre |-> Unused]

(***************************************************************************)
(* Taxes (src/expenses.py)                                                 *)
(***************************************************************************)

\* Largest number of brackets of a table.
MaxBrackets == 3

\* Largest income asked about.
MaxIncome == 8

Thresholds == {1, 3, 6}

RatesPct == {10, 20}

Incomes == -1 .. MaxIncome

IsAscending(s) == \A i \in 1 .. Len(s) - 1 : s[i] < s[i + 1]

\* Bracket tables the constructor accepts: both lists of the same length.
BracketTables ==
    UNION {{[brackets |-> b, tax_rates |-> r] :
               b \in {s \in [1 .. n -> Thresholds] : IsAscending(s)},
               r \in [1 .. n -> RatesPct]} : n \in 1 .. MaxBrackets}

\* The for loop of Taxes.tax_payable; i is Python's loop index, so that
\* Python's brackets[i - 1] is b[i] and brackets[i] is b[i + 1].
RECURSIVE TaxLoop(_, _, _, _, _)
TaxLoop(b, r, income, i, total_tax_payable) ==
    IF i > Len(b) - 1
    THEN total_tax_payable
    ELSE LET previous_bracket_limit == b[i]
             bracket_rate == r[i]
             bracket_limit == b[i + 1]
             next_bracket_rate == r[i + 1]
         IN  IF income < bracket_limit
             THEN total_tax_payable
                      + (income - previous_bracket_limit) * bracket_rate
             ELSE LET met == total_tax_payable
                                + (bracket_limit - previous_bracket_limit)
                                      * bracket_rate
                      top == IF i = Len(b) - 1
                             THEN met + (income - bracket_limit)
                                            * next_bracket_rate
                             ELSE met
                  IN  TaxLoop(b, r, income, i + 1, top)

\* Taxes.tax_payable, in hundredths of the income unit (rates are percent).
TaxPayable(t, income) ==
    IF income < t.brackets[1]
    THEN 0
    ELSE TaxLoop(t.brackets, t.tax_rates, income, 1, 0)

TaxesInit ==
    /\ taxes \in BracketTables
    /\ persons = Unused
    /\ unit = Unused
    /\ solver = Unused
    /\ mortgage = Unused
    /\ payoff = Unused
    /\ history = Unused
    /\ account = Unused
    /\ call = NoCall

\* A call of Taxes.tax_payable(income).
TaxPayableCall(income) ==
    /\ call' = [NoCall EXCEPT !.name = "tax_payable", !.arg = income,
                              !.ret = TaxPayable(taxes, income), !.pre = taxes]
    /\ UNCHANGED <<persons, unit, solver, taxes, mortgage, payoff, history,
                   account>>

TaxesNext == \E income \in Incomes : TaxPayableCall(income)

SpecTaxes == TaxesInit /\ [][TaxesNext]_vars

\* The closed form of the specification: the sum, over the brackets the
\* income reaches, of rate[i] * (min(income, threshold[i+1]) - threshold[i]),
\* the top bracket being open-ended.
RECURSIVE BracketSum(_, _, _)
BracketSum(t, income, i) ==
    IF i > Len(t.brackets) \/ income < t.brackets[i]
    THEN 0
    ELSE LET upper == IF i < Len(t.brackets)
                      THEN Min(income, t.brackets[i + 1])
                      ELSE income
         IN  t.tax_rates[i] * (upper - t.brackets[i])
                 + BracketSum(t, income, i + 1)

\* C1: for every ascending bracket table, a single-bracket table included,
\* tax_payable(income) is 0 below the first threshold and otherwise the sum
\* of rate[i] * (min(income, threshold[i+1]) - threshold[i]) over the brackets
\* reached, the top rate applying to all income above the last threshold.
C1_TaxIsBracketSum ==
    call.name = "tax_payable"
        => call.ret = BracketSum(call.pre, call.arg, 1)

\* The same statement for tables of two or more brackets.
TaxIsBracketSumFromTwoBrackets ==
    (call.name = "tax_payable" /\ Len(call.pre.brackets) >= 2)
        => call.ret = BracketSum(call.pre, call.arg, 1)

(***************************************************************************)
(* Mortgage (src/expenses.py).  Money is in cents.  The interest rate is   *)
(* the yearly rate in percent; Mortgage.__init__ divides it by 12, so the  *)
(* monthly rate is rate / RateScale.                                       *)
(***************************************************************************)

\* Longest mortgage period, in years.
MaxPeriod == 5

\* Months a mortgage is followed for by iterate_n_months, and the value at
\* which the month counter of the payoff loop saturates.
MaxMonths == 70

\* Additional payments made in one behaviour.
MaxPayments == 1

\* 12 months of a year times 100 percent: rate / 12 of Mortgage.__init__.
RateScale == 1200

\* Fixed-point scale of (1 + rate) ** period.
PowScale == 1000

\* One dollar and one cent, the limits of expected_payoff_months and
\* is_house_paid.
PayoffLimit == 100

PaidLimit == 1

HouseCosts == {1200}

DownPayments == {200}

YearlyRatesPct == {12, 120}

Payments == {263, 2000}

MonthCounts == {12}

CostMonths == {0, 5, 12}

\* (1 + self._rate) ** k, scaled by PowScale.
RECURSIVE Compound(_, _)
Compound(rate, k) ==
    IF k = 0
    THEN PowScale
    ELSE (Compound(rate, k - 1) * (RateScale + rate)) \div RateScale

\* self._monthly_payment of Mortgage.__init__
MonthlyPayment(house_cost, down_payment, rate, period) ==
    ((house_cost - down_payment)
         * ((rate * Compound(rate, period)) \div RateScale))
        \div (Compound(rate, period) - PowScale)

\* Mortgage.__init__
NewMortgage(house_cost, down_payment, rate, years) ==
    [rate |-> rate,
     period |-> years * 12,
     monthly_payment |->
         MonthlyPayment(house_cost, down_payment, rate, years * 12),
     house_cost |-> house_cost,
     down_payment |-> down_payment,
     principal_remaining |-> house_cost - down_payment,
     interest_paid |-> 0]

\* interest_payment = principal * self._rate
InterestPayment(m, principal) == (principal * m.rate) \div RateScale

PrincipalPaymentUncapped(m, principal) ==
    m.monthly_payment - InterestPayment(m, principal)

\* principal_payment = min(self._monthly_payment - interest_payment, principal)
PrincipalPayment(m, principal) ==
    Min(m.monthly_payment - InterestPayment(m, principal), principal)

\* amount_paid of Mortgage.additional_payment
AmountPaid(payment, principal) == Min(payment, principal)

\* The for loop of Mortgage.iterate_n_months, k months to go.  The values of
\* one month are bound (CHOOSE over a one-element set) before the next month
\* is computed, here and in the other loops, so that a loop is evaluated
\* once per iteration.
RECURSIVE IterateLoop(_, _, _, _, _)
IterateLoop(m, k, principal, interest_paid, amount_paid) ==
    IF k = 0
    THEN [principal_remaining |-> principal, interest_paid |-> interest_paid,
          amount_paid |-> amount_paid]
    ELSE LET interest_payment == InterestPayment(m, principal)
             principal_payment == PrincipalPayment(m, principal)
             interest2 == interest_paid + interest_payment
             principal2 == principal - principal_payment
             amount2 == amount_paid + interest_payment + principal_payment
         IN  IF principal2 < 0
             THEN [principal_remaining |-> principal2,
                   interest_paid |-> interest2, amount_paid |-> amount2]
             ELSE CHOOSE after \in
                      {IterateLoop(m, k - 1, p, i, a) :
                           p \in {principal2}, i \in {interest2},
                           a \in {amount2}} : TRUE

\* Mortgage.iterate_n_months: the new fields and the returned amount.
IterateNMonths(m, n) ==
    IterateLoop(m, n, m.principal_remaining, m.interest_paid, 0)

\* The for loop of Mortgage.expected_n_cost, k months to go.
RECURSIVE ExpectedLoop(_, _, _, _)
ExpectedLoop(m, k, principal, amount_paid) ==
    IF k = 0
    THEN amount_paid
    ELSE LET interest_payment == InterestPayment(m, principal)
             principal_payment ==
                 Min(m.monthly_payment - interest_payment, principal)
             principal2 == principal - principal_payment
             amount2 == amount_paid + interest_payment + principal_payment
         IN  IF principal2 < 0
             THEN amount2
             ELSE CHOOSE cost \in
                      {ExpectedLoop(m, k - 1, p, a) :
                           p \in {principal2}, a \in {amount2}} : TRUE

ExpectedNCostOfNewLoan(m, n) ==
    ExpectedLoop(m, n, m.house_cost - m.down_payment, 0)

\* Mortgage.expected_n_cost
ExpectedNCost(m, n) == ExpectedLoop(m, n, m.principal_remaining, 0)

\* Mortgage.is_house_paid
IsHousePaid(m) == m.principal_remaining < PaidLimit

\* The locals of expected_payoff_months.  num_months is kept as the pair of
\* Min(num_months, MaxMonths) and its parity (odd), so that a loop that runs
\* forever is a cycle of the model.
Idle == [pc |-> "idle", num_months |-> 0, principal_remaining |-> 0,
         odd |-> FALSE]

NoHistory == [payments |-> 0, months |-> 0, expected |-> 0, elapsed |-> 0]

MortgageInit ==
    /\ taxes = Unused
    /\ persons = Unused
    /\ unit = Unused
    /\ solver = Unused
    /\ mortgage \in {NewMortgage(h, d, r, y) :
                        h \in HouseCosts, d \in DownPayments,
                        r \in YearlyRatesPct, y \in 1 .. MaxPeriod}
    /\ payoff = Idle
    /\ history = NoHistory
    /\ account = Unused
    /\ call = [NoCall EXCEPT !.pre = mortgage]

\* Mortgage.additional_payment(payment)
AdditionalPayment(payment) ==
    /\ payoff.pc = "idle"
    /\ history.payments < MaxPayments
    /\ LET amount_paid == AmountPaid(payment, mortgage.principal_remaining)
       IN  /\ mortgage' = [mortgage EXCEPT !.principal_remaining = @ - amount_paid]
           /\ call' = [NoCall EXCEPT !.name = "additional_payment",
                                     !.arg = payment, !.ret = amount_paid,
                                     !.pre = mortgage]
    /\ history' = [history EXCEPT !.payments = @ + 1]
    /\ UNCHANGED <<persons, unit, solver, taxes, payoff, account>>

\* Mortgage.iterate_n_months(n)
IterateNMonthsCall(n) ==
    /\ payoff.pc = "idle"
    /\ history.months + n <= MaxMonths
    /\ LET after == IterateNMonths(mortgage, n)
       IN  /\ mortgage' = [mortgage EXCEPT
                              !.principal_remaining = after.principal_remaining,
                              !.interest_paid = after.interest_paid]
           /\ call' = [NoCall EXCEPT !.name = "iterate_n_months", !.arg = n,
                                     !.ret = after.amount_paid, !.pre = mortgage]
    /\ history' = [history EXCEPT
                      !.months = @ + n,
                      !.elapsed = Min(@ + n, history.expected)]
    /\ UNCHANGED <<persons, unit, solver, taxes, payoff, account>>

\* Mortgage.expected_n_cost(n)
ExpectedNCostCall(n) ==
    /\ payoff.pc = "idle"
    /\ call' = [NoCall EXCEPT !.name = "expected_n_cost", !.arg = n,
                              !.ret = ExpectedNCost(mortgage, n),
                              !.pre = mortgage]
    /\ UNCHANGED <<persons, unit, solver, taxes, mortgage, payoff, history,
                   account>>

\* Mortgage.expected_payoff_months: entry, up to `while True`.
ExpectedPayoffMonthsCall ==
    /\ payoff.pc = "idle"
    /\ payoff' = [pc |-> "loop", num_months |-> 0,
                  principal_remaining |-> mortgage.principal_remaining,
                  odd |-> FALSE]
    /\ call' = [NoCall EXCEPT !.name = "expected_payoff_months",
                              !.pre = mortgage]
    /\ UNCHANGED <<persons, unit, solver, taxes, mortgage, history, account>>

\* Mortgage.expected_payoff_months: one pass of the `while True` body.
ExpectedPayoffMonthsLoop ==
    /\ payoff.pc = "loop"
    /\ LET num_months == Min(payoff.num_months + 1, MaxMonths)
           principal_payment ==
               Min(mortgage.monthly_payment
                       - InterestPayment(mortgage, payoff.principal_remaining),
                   payoff.principal_remaining)
           principal_remaining == payoff.principal_remaining - principal_payment
       IN  IF principal_remaining < PayoffLimit
           THEN /\ payoff' = Idle
                /\ call' = [call EXCEPT !.ret = num_months]
                /\ history' = [history EXCEPT !.expected = num_months,
                                              !.elapsed = 0]
           ELSE /\ payoff' = [payoff EXCEPT
                                 !.num_months = num_months,
                                 !.principal_remaining = principal_remaining,
                                 !.odd = ~@]
                /\ UNCHANGED <<call, history>>
    /\ UNCHANGED <<persons, unit, solver, taxes, mortgage, account>>

MortgageNext ==
    \/ \E payment \in Payments : AdditionalPayment(payment)
    \/ \E n \in MonthCounts \cup {history.expected} : IterateNMonthsCall(n)
    \/ \E n \in CostMonths : ExpectedNCostCall(n)
    \/ ExpectedPayoffMonthsCall
    \/ ExpectedPayoffMonthsLoop

SpecMortgage == MortgageInit /\ [][MortgageNext]_vars

\* The interpreter runs the while loop of expected_payoff_months as long as
\* it has a next pass.
FairSpecMortgage == SpecMortgage /\ WF_vars(ExpectedPayoffMonthsLoop)

\* C2: over any sequence of iterate_n_months and additional_payment calls
\* that borrow nothing (payments are not negative), principal_remaining never
\* increases from one call to the next and is never negative.
C2_PrincipalNeverIncreases ==
    /\ mortgage.principal_remaining >= 0
    /\ call.name \in {"additional_payment", "iterate_n_months"}
           => mortgage.principal_remaining <= call.pre.principal_remaining

\* Twelve months that end a mortgage: the last payment is capped at what is left.
C2_Witness ==
    /\ call.name = "iterate_n_months"
    /\ call.pre.principal_remaining > 0
    /\ mortgage.principal_remaining = 0

\* C3: expected_n_cost(n) returns exactly what iterate_n_months(n) would
\* return from the same state, and leaves principal_remaining and
\* interest_paid as they were.
C3_ExpectedCostIsIterateCost ==
    call.name = "expected_n_cost"
        => /\ call.ret = IterateNMonths(call.pre, call.arg).amount_paid
           /\ mortgage = call.pre

\* A year's cost asked of a mortgage that an additional payment has reduced.
C3_Witness ==
    /\ call.name = "expected_n_cost"
    /\ call.arg = 12
    /\ call.ret > 0
    /\ history.payments > 0
    /\ mortgage.principal_remaining
           < mortgage.house_cost - mortgage.down_payment

\* C4: expected_payoff_months terminates for every mortgage whose monthly
\* payment is at least the monthly interest on the original principal.
C4_PayoffMonthsTerminates ==
    (/\ payoff.pc = "loop"
     /\ mortgage.monthly_payment
            >= InterestPayment(mortgage,
                               mortgage.house_cost - mortgage.down_payment))
        ~> (payoff.pc = "idle")

\* C5: once m = expected_payoff_months() was read and the mortgage was then
\* advanced m months, additional payments or not, is_house_paid() holds.
C5_PaidAfterExpectedMonths ==
    (/\ payoff.pc = "idle"
     /\ history.expected > 0
     /\ history.elapsed >= history.expected)
        => IsHousePaid(mortgage)

\* The month counter of the payoff loop saturates only when a pass no longer
\* reduces the simulated principal: every loop that ends returns its count.
PayoffSaturatesOnlyWhenStuck ==
    (payoff.pc = "loop" /\ payoff.num_months = MaxMonths)
        => PrincipalPayment(mortgage, payoff.principal_remaining) = 0

(***************************************************************************)
(* Accounts (src/saving_vessels.py).  Money is in dollars, growth rates    *)
(* and the RRSP room rate are percentages.  `account` is one account       *)
(* object of one of the four classes.                                      *)
(***************************************************************************)

\* Calls made on one account.
MaxCalls == 5

\* Largest balance followed.
MaxBalance == 20000

\* TFSA.Settings.tfsa_yearly_room_increase
TfsaYearlyRoomIncrease == 6000

\* The literal 0.18 that RRSP.__init__ stores, in percent.
RrspRoomPercent == 18

Amounts == {-500, 500, 20000}

InitBalances == {-1000, 0, 1000}

InitRooms == {-1000, 0, 10000}

MaxRooms == {1000, 27230}

RoomPercents == {10, 18}

RrspIncomes == {1800, 200000}

GrowthPct == {0, 100}

NraBalances == {0, 1000, 2000}

NraCosts == {0, 1000}

\* TFSA.__init__
NewTFSA(balance, contribution_room) ==
    [kind |-> "TFSA",
     balance |-> Max(balance, 0),
     contribution_room |-> Max(contribution_room, 0),
     curr_year_withdrawals |-> 0]

\* RRSP.__init__
NewRRSP(balance, contribution_room, max_room, max_room_percent_income) ==
    [kind |-> "RRSP",
     balance |-> Max(balance, 0),
     contribution_room |-> Max(contribution_room, 0),
     max_room |-> max_room,
     max_room_percent_income |-> RrspRoomPercent]

\* EmergencyFund.__init__
NewEmergencyFund(balance, emergency_months) ==
    [kind |-> "EmergencyFund",
     balance |-> Max(balance, 0),
     emergency_months |-> emergency_months]

\* NonRegisteredAccount.__init__
NewNonRegisteredAccount(balance, investment_costs) ==
    [kind |-> "NonRegisteredAccount",
     balance |-> balance,
     investment_costs |-> investment_costs]

\* self._balance *= 1 + rate
Grow(balance, rate) == (balance * (100 + rate)) \div 100

DepositAmountUncapped(contribution_room, amount) == amount

\* deposit_amount of RegisteredAccount.deposit
DepositAmount(contribution_room, amount) == Min(contribution_room, amount)

\* withdraw_amount of TFSA.withdraw, RRSP.withdraw, EmergencyFund.withdraw
WithdrawAmount(balance, amount) == Min(balance, amount)

TfsaRoomAfterYearWithoutWithdrawals(a) ==
    a.contribution_room + TfsaYearlyRoomIncrease

\* self._contribution_room of TFSA.increment_year
TfsaRoomAfterYear(a) ==
    a.contribution_room + (TfsaYearlyRoomIncrease + a.curr_year_withdrawals)

\* room_increase of RRSP.increment_year
RoomIncrease(a, income) ==
    Min(a.max_room, (income * a.max_room_percent_income) \div 100)

NraCapitalGainsOfWholeBalance(a, amount) ==
    (a.balance - a.investment_costs) \div 2

\* The taxable gain of NonRegisteredAccount.withdraw and capital_gains,
\* for a balance other than 0.
NraCapitalGains(a, amount) ==
    LET capped == Min(amount, a.balance)
        capital_gains == ((a.balance - a.investment_costs) * capped) \div a.balance
    IN  capital_gains \div 2

\* self._investment_costs *= 1 - (amount / self._balance)
NraCostsAfterWithdraw(a, amount) ==
    (a.investment_costs * (a.balance - Min(amount, a.balance))) \div a.balance

AccountHistory ==
    [calls |-> 0, since |-> 0, last_since |-> 0, withdrawn |-> 0,
     recaptured |-> 0, roundtrip |-> FALSE,
     max_room |-> 0, max_room_percent_income |-> 0]

\* One more call made; a call other than NonRegisteredAccount.withdraw does
\* not complete a deposit-and-withdraw round trip.
Counted(h) == [h EXCEPT !.calls = @ + 1, !.roundtrip = FALSE]

AccountInit ==
    /\ taxes = Unused
    /\ persons = Unused
    /\ unit = Unused
    /\ solver = Unused
    /\ mortgage = Unused
    /\ payoff = Unused
    /\ \/ /\ account \in {NewTFSA(b, r) : b \in InitBalances, r \in InitRooms}
          /\ history = AccountHistory
       \/ \E mr \in MaxRooms, pct \in RoomPercents :
              /\ account \in {NewRRSP(b, r, mr, pct) :
                                 b \in InitBalances, r \in InitRooms}
              /\ history = [AccountHistory EXCEPT
                               !.max_room = mr,
                               !.max_room_percent_income = pct]
       \/ /\ account \in {NewEmergencyFund(b, 6) : b \in InitBalances}
          /\ history = AccountHistory
       \/ /\ account \in {NewNonRegisteredAccount(b, c) :
                             b \in NraBalances, c \in NraCosts}
          /\ history = AccountHistory
    /\ call = [NoCall EXCEPT !.pre = account]

\* RegisteredAccount.deposit(amount), inherited by TFSA and RRSP
RegisteredDeposit(amount) ==
    /\ account.kind \in {"TFSA", "RRSP"}
    /\ history.calls < MaxCalls
    /\ IF amount < 0
       THEN /\ call' = [NoCall EXCEPT !.name = "deposit", !.arg = amount,
                                      !.ret = 0, !.pre = account]
            /\ UNCHANGED account
       ELSE LET deposit_amount ==
                    DepositAmount(account.contribution_room, amount)
            IN  /\ account' = [account EXCEPT
                                  !.balance = @ + deposit_amount,
                                  !.contribution_room = @ - deposit_amount]
                /\ call' = [NoCall EXCEPT !.name = "deposit", !.arg = amount,
                                          !.ret = deposit_amount,
                                          !.pre = account]
    /\ history' = Counted(history)
    /\ UNCHANGED <<persons, unit, solver, taxes, mortgage, payoff>>

\* TFSA.withdraw(amount)
TfsaWithdraw(amount) ==
    /\ account.kind = "TFSA"
    /\ history.calls < MaxCalls
    /\ IF amount < 0
       THEN /\ call' = [NoCall EXCEPT !.name = "withdraw", !.arg = amount,
                                      !.ret = 0, !.pre = account]
            /\ UNCHANGED account
            /\ history' = Counted(history)
       ELSE LET withdraw_amount == WithdrawAmount(account.balance, amount)
            IN  /\ account' = [account EXCEPT
                                  !.curr_year_withdrawals = @ + withdraw_amount,
                                  !.balance = @ - withdraw_amount]
                /\ call' = [NoCall EXCEPT !.name = "withdraw", !.arg = amount,
                                          !.ret = withdraw_amount,
                                          !.pre = account]
                /\ history' = [Counted(history) EXCEPT
                                  !.since = @ + withdraw_amount,
                                  !.withdrawn = @ + withdraw_amount]
    /\ UNCHANGED <<persons, unit, solver, taxes, mortgage, payoff>>

\* TFSA.increment_year(interest_rate)
TfsaIncrementYear(interest_rate) ==
    /\ account.kind = "TFSA"
    /\ history.calls < MaxCalls
    /\ Grow(account.balance, interest_rate) <= MaxBalance
    /\ account' = [account EXCEPT
                      !.balance = Grow(@, interest_rate),
                      !.contribution_room = TfsaRoomAfterYear(account),
                      !.curr_year_withdrawals = 0]
    /\ call' = [NoCall EXCEPT !.name = "increment_year",
                              !.arg = interest_rate, !.none = TRUE,
                              !.pre = account]
    /\ history' = [Counted(history) EXCEPT
                      !.since = 0,
                      !.last_since = history.since,
                      !.recaptured =
                          @ + (account'.contribution_room
                                   - account.contribution_room
                                   - TfsaYearlyRoomIncrease)]
    /\ UNCHANGED <<persons, unit, solver, taxes, mortgage, payoff>>

\* RRSP.withdraw(amount)
RrspWithdraw(amount) ==
    /\ account.kind = "RRSP"
    /\ history.calls < MaxCalls
    /\ IF amount < 0
       THEN /\ call' = [NoCall EXCEPT !.name = "withdraw", !.arg = amount,
                                      !.ret = 0, !.pre = account]
            /\ UNCHANGED account
       ELSE LET withdraw_amount == WithdrawAmount(account.balance, amount)
            IN  /\ account' = [account EXCEPT !.balance = @ - withdraw_amount]
                /\ call' = [NoCall EXCEPT !.name = "withdraw", !.arg = amount,
                                          !.ret = withdraw_amount,
                                          !.pre = account]
    /\ history' = Counted(history)
    /\ UNCHANGED <<persons, unit, solver, taxes, mortgage, payoff>>

\* RRSP.increment_year(income, interest_rate), room_increment left at 0.0
RrspIncrementYear(income, interest_rate) ==
    /\ account.kind = "RRSP"
    /\ history.calls < MaxCalls
    /\ Grow(account.balance, interest_rate) <= MaxBalance
    /\ LET room_increase == RoomIncrease(account, income)
       IN  /\ account' = [account EXCEPT
                             !.balance = Grow(@, interest_rate),
                             !.max_room = Grow(@, 0),
                             !.contribution_room = @ + room_increase]
           /\ call' = [NoCall EXCEPT !.name = "increment_year",
                                     !.arg = income, !.ret = room_increase,
                                     !.pre = account]
    /\ history' = Counted(history)
    /\ UNCHANGED <<persons, unit, solver, taxes, mortgage, payoff>>

\* EmergencyFund.withdraw(amount)
EmergencyFundWithdraw(amount) ==
    /\ account.kind = "EmergencyFund"
    /\ history.calls < MaxCalls
    /\ IF amount < 0
       THEN /\ call' = [NoCall EXCEPT !.name = "withdraw", !.arg = amount,
                                      !.ret = 0, !.pre = account]
            /\ UNCHANGED account
       ELSE LET withdraw_amount == WithdrawAmount(account.balance, amount)
            IN  /\ account' = [account EXCEPT !.balance = @ - withdraw_amount]
                /\ call' = [NoCall EXCEPT !.name = "withdraw", !.arg = amount,
                                          !.ret = withdraw_amount,
                                          !.pre = account]
    /\ history' = Counted(history)
    /\ UNCHANGED <<persons, unit, solver, taxes, mortgage, payoff>>

\* EmergencyFund.deposit(amount): returns 0 for a negative amount and
\* nothing (None) otherwise.
EmergencyFundDeposit(amount) ==
    /\ account.kind = "EmergencyFund"
    /\ history.calls < MaxCalls
    /\ account.balance + amount <= MaxBalance
    /\ IF amount < 0
       THEN /\ call' = [NoCall EXCEPT !.name = "deposit", !.arg = amount,
                                      !.ret = 0, !.pre = account]
            /\ UNCHANGED account
       ELSE /\ account' = [account EXCEPT !.balance = @ + amount]
            /\ call' = [NoCall EXCEPT !.name = "deposit", !.arg = amount,
                                      !.none = TRUE, !.pre = account]
    /\ history' = Counted(history)
    /\ UNCHANGED <<persons, unit, solver, taxes, mortgage, payoff>>

\* NonRegisteredAccount.deposit(amount): returns nothing (None).
NraDeposit(amount) ==
    /\ account.kind = "NonRegisteredAccount"
    /\ history.calls < MaxCalls
    /\ account.balance + amount <= MaxBalance
    /\ account.balance + amount >= -MaxBalance
    /\ account' = [account EXCEPT !.balance = @ + amount,
                                  !.investment_costs = @ + amount]
    /\ call' = [NoCall EXCEPT !.name = "deposit", !.arg = amount,
                              !.none = TRUE, !.pre = account]
    /\ history' = Counted(history)
    /\ UNCHANGED <<persons, unit, solver, taxes, mortgage, payoff>>

\* NonRegisteredAccount.withdraw(amount): returns (amount, taxable gain).
NraWithdraw(amount) ==
    /\ account.kind = "NonRegisteredAccount"
    /\ history.calls < MaxCalls
    /\ account.balance - Min(amount, account.balance) <= MaxBalance
    /\ IF account.balance = 0
       THEN /\ call' = [NoCall EXCEPT !.name = "withdraw", !.arg = amount,
                                      !.ret = 0, !.gain = 0, !.pre = account]
            /\ UNCHANGED account
       ELSE LET capped == Min(amount, account.balance)
            IN  /\ account' = [account EXCEPT
                                  !.investment_costs =
                                      NraCostsAfterWithdraw(account, amount),
                                  !.balance = @ - capped]
                /\ call' = [NoCall EXCEPT
                               !.name = "withdraw", !.arg = amount,
                               !.ret = capped,
                               !.gain = NraCapitalGains(account, amount),
                               !.pre = account]
    /\ history' = [Counted(history) EXCEPT
                      !.roundtrip =
                          /\ call.name = "deposit"
                          /\ call.arg = amount
                          /\ call.pre.investment_costs = call.pre.balance]
    /\ UNCHANGED <<persons, unit, solver, taxes, mortgage, payoff>>

\* NonRegisteredAccount.capital_gains(amount)
NraCapitalGainsCall(amount) ==
    /\ account.kind = "NonRegisteredAccount"
    /\ history.calls < MaxCalls
    /\ call' = [NoCall EXCEPT
                   !.name = "capital_gains", !.arg = amount,
                   !.ret = IF account.balance = 0
                           THEN 0
                           ELSE NraCapitalGains(account, amount),
                   !.pre = account]
    /\ history' = Counted(history)
    /\ UNCHANGED <<persons, unit, solver, taxes, mortgage, payoff, account>>

\* NonRegisteredAccount.increment_year(growth)
NraIncrementYear(growth) ==
    /\ account.kind = "NonRegisteredAccount"
    /\ history.calls < MaxCalls
    /\ Grow(account.balance, growth) <= MaxBalance
    /\ Grow(account.balance, growth) >= -MaxBalance
    /\ account' = [account EXCEPT !.balance = Grow(@, growth)]
    /\ call' = [NoCall EXCEPT !.name = "increment_year", !.arg = growth,
                              !.none = TRUE, !.pre = account]
    /\ history' = Counted(history)
    /\ UNCHANGED <<persons, unit, solver, taxes, mortgage, payoff>>

AccountNext ==
    \/ \E amount \in Amounts : RegisteredDeposit(amount)
    \/ \E amount \in Amounts : TfsaWithdraw(amount)
    \/ \E rate \in GrowthPct : TfsaIncrementYear(rate)
    \/ \E amount \in Amounts : RrspWithdraw(amount)
    \/ \E income \in RrspIncomes, rate \in GrowthPct :
           RrspIncrementYear(income, rate)
    \/ \E amount \in Amounts : EmergencyFundWithdraw(amount)
    \/ \E amount \in Amounts : EmergencyFundDeposit(amount)
    \/ \E amount \in Amounts : NraDeposit(amount)
    \/ \E amount \in Amounts : NraWithdraw(amount)
    \/ \E amount \in Amounts : NraCapitalGainsCall(amount)
    \/ \E growth \in GrowthPct : NraIncrementYear(growth)

SpecAccount == AccountInit /\ [][AccountNext]_vars

\* C6: on a TFSA or an RRSP, deposit(amount) with amount >= 0 accepts exactly
\* min(amount, contribution_room), adds it to the balance, takes it from the
\* room and returns it; withdraw(amount) with amount >= 0 releases exactly
\* min(amount, balance), takes it from the balance and returns it.
C6_RegisteredDepositAndWithdrawClamp ==
    (account.kind \in {"TFSA", "RRSP"} /\ call.arg >= 0)
        => /\ call.name = "deposit"
                  => LET accepted ==
                             IF call.arg < call.pre.contribution_room
                             THEN call.arg
                             ELSE call.pre.contribution_room
                     IN  /\ call.ret = accepted
                         /\ account.balance = call.pre.balance + accepted
                         /\ account.contribution_room
                                = call.pre.contribution_room - accepted
           /\ call.name = "withdraw"
                  => LET released ==
                             IF call.arg < call.pre.balance
                             THEN call.arg
                             ELSE call.pre.balance
                     IN  /\ call.ret = released
                         /\ account.balance = call.pre.balance - released

\* A deposit of more than the room: the room is used up.
C6_Witness ==
    /\ account.kind \in {"TFSA", "RRSP"}
    /\ call.name = "deposit"
    /\ call.pre.contribution_room > 0
    /\ call.arg > call.pre.contribution_room
    /\ account.contribution_room = 0

C8_NegativeAmountsMoveNothing ==
    /\ (call.name \in {"deposit", "withdraw"} /\ call.arg < 0)
           => /\ ~call.none
              /\ call.ret = 0
              /\ account = call.pre
    /\ account.balance >= 0
    /\ account.kind \in {"TFSA", "RRSP"} => account.contribution_room >= 0
    /\ account.kind = "NonRegisteredAccount" => account.investment_costs >= 0

\* C9: RRSP.increment_year(income, rate) raises contribution_room by exactly
\* min(max_room, income * max_room_percent_income), both as given to the
\* constructor, and returns the increase.
C9_RrspRoomGrowsByConstructedRate ==
    (account.kind = "RRSP" /\ call.name = "increment_year")
        => LET increase ==
                   Min(history.max_room,
                       (call.arg * history.max_room_percent_income) \div 100)
           IN  /\ call.ret = increase
               /\ account.contribution_room
                      = call.pre.contribution_room + increase

\* C10: NonRegisteredAccount.withdraw(amount) on an account that is not empty
\* releases a = min(amount, balance), returns the taxable gain
\* 0.5 * (balance - cost basis) * a / balance and shrinks the cost basis by
\* the fraction a / balance; deposit X then withdraw X, the cost basis being
\* the balance, gives gain 0; capital_gains(amount) returns the same gain and
\* changes nothing.
C10_NraGainIsProportional ==
    account.kind = "NonRegisteredAccount"
        => LET balance == call.pre.balance
               cost_basis == call.pre.investment_costs
               a == IF call.arg < balance THEN call.arg ELSE balance
               gain == (((balance - cost_basis) * a) \div balance) \div 2
           IN  /\ (call.name = "withdraw" /\ balance # 0)
                      => /\ call.ret = a
                         /\ call.gain = gain
                         /\ account.balance = balance - a
                         /\ account.investment_costs
                                = (cost_basis * (balance - a)) \div balance
               /\ (call.name = "withdraw" /\ history.roundtrip)
                      => call.gain = 0
               /\ (call.name = "capital_gains" /\ balance # 0)
                      => /\ call.ret = gain
                         /\ account = call.pre

\* Part of a balance that holds a gain is withdrawn.
C10_Witness ==
    /\ account.kind = "NonRegisteredAccount"
    /\ call.name = "withdraw"
    /\ call.gain > 0
    /\ call.ret < call.pre.balance
    /\ account.investment_costs < call.pre.investment_costs

(***************************************************************************)
(* Before-tax contribution solver (src/savings.py).  Money is in tenths   *)
(* of a dollar, so that the tolerance 0.1 of the loop is one unit; tax    *)
(* rates are in ten-thousandths.                                          *)
(***************************************************************************)

\* Ten-thousandths: the unit of FEDERAL_TAX_RATES and ONTARIO_TAX_RATES.
RateUnit == 10000

\* The 0.1 of `while abs(...) > 0.1`, in tenths of a dollar.
Tolerance == 1

\* federal_tax = Taxes(FEDERAL_BRACKETS, FEDERAL_TAX_RATES)
FederalTax ==
    [brackets |-> <<132290, 485350, 970700, 1504740, 2143680>>,
     tax_rates |-> <<1500, 2050, 2600, 2900, 3300>>]

\* ontario_tax = Taxes(ONTARIO_BRACKETS, ONTARIO_TAX_RATES)
OntarioTax ==
    [brackets |-> <<107830, 447400, 894820, 1500000, 2200000>>,
     tax_rates |-> <<505, 915, 1116, 1216, 1316>>]

\* tax_payable(income) of the module: federal plus Ontario tax.
TaxOwed(income) ==
    TaxPayable(FederalTax, income) \div RateUnit
        + TaxPayable(OntarioTax, income) \div RateUnit

Abs(x) == IF x < 0 THEN -x ELSE x

BeforeTaxIncomes == {200000, 350000, 500000, 650000, 1000000}

Deductions == {0, 10000, 50000, 100000, 150000}

NoSolver ==
    [pc |-> "idle", AT_deduction |-> 0, AT_original |-> 0, BT_original |-> 0,
     BT_guess |-> 0, AT_guess |-> 0]

\* rrsp_before_tax_calc up to its while loop.
SolverStart(AT_deduction, AT_original, BT_original) ==
    [pc |-> "loop", AT_deduction |-> AT_deduction,
     AT_original |-> AT_original, BT_original |-> BT_original,
     BT_guess |-> BT_original,
     AT_guess |-> BT_original - TaxOwed(BT_original)]

\* diff = abs(AT_original - AT_guess) - AT_deduction
SolverDiff(s) == Abs(s.AT_original - s.AT_guess) - s.AT_deduction

SolverContinuesFarOff(s) == Abs(SolverDiff(s)) > 1000 * Tolerance

\* The condition of the while loop.
SolverContinues(s) == Abs(SolverDiff(s)) > Tolerance

\* One pass of the body of the while loop.
SolverPass(s) ==
    LET BT_guess == s.BT_guess + SolverDiff(s)
    IN  [s EXCEPT !.BT_guess = BT_guess,
                  !.AT_guess = BT_guess - TaxOwed(BT_guess)]

SolverInit ==
    /\ taxes = Unused
    /\ mortgage = Unused
    /\ payoff = Unused
    /\ history = Unused
    /\ account = Unused
    /\ persons = Unused
    /\ unit = Unused
    /\ solver = NoSolver
    /\ call = NoCall

\* A call rrsp_before_tax_calc(AT_deduction, AT_original, BT_original) with
\* AT_original the after-tax income of BT_original.
RrspBeforeTaxCalcCall(AT_deduction, BT_original) ==
    /\ solver.pc = "idle"
    /\ LET AT_original == BT_original - TaxOwed(BT_original)
       IN  /\ AT_deduction < AT_original
           /\ solver' = SolverStart(AT_deduction, AT_original, BT_original)
           /\ call' = [NoCall EXCEPT
                          !.name = "rrsp_before_tax_calc",
                          !.arg = AT_deduction,
                          !.none = TRUE,
                          !.pre = [AT_original |-> AT_original,
                                   BT_original |-> BT_original]]
    /\ UNCHANGED <<persons, unit, taxes, mortgage, payoff, history, account>>

\* The while loop of rrsp_before_tax_calc: one test of its condition and,
\* when it holds, one pass of its body; otherwise `return BT_guess`.
RrspBeforeTaxCalcLoop ==
    /\ solver.pc = "loop"
    /\ IF SolverContinues(solver)
       THEN /\ solver' = SolverPass(solver)
            /\ UNCHANGED call
       ELSE /\ solver' = [solver EXCEPT !.pc = "idle"]
            /\ call' = [call EXCEPT !.ret = solver.BT_guess, !.none = FALSE]
    /\ UNCHANGED <<persons, unit, taxes, mortgage, payoff, history, account>>

SolverNext ==
    \/ \E d \in Deductions, b \in BeforeTaxIncomes :
           RrspBeforeTaxCalcCall(d, b)
    \/ RrspBeforeTaxCalcLoop

SpecSolver == SolverInit /\ [][SolverNext]_vars

\* The interpreter runs the while loop as long as it has a next step.
FairSpecSolver == SpecSolver /\ WF_vars(RrspBeforeTaxCalcLoop)

\* C11: for 0 <= D < A = B - tax(B), the value x that
\* rrsp_before_tax_calc(D, A, B) returns satisfies
\* |(B - tax(B - x)) - (B - tax(B)) + D| < 0.1.
C11_ReturnedValueMeetsClaim ==
    (call.name = "rrsp_before_tax_calc" /\ ~call.none)
        => LET B == call.pre.BT_original
               D == call.arg
               x == call.ret
           IN  Abs((B - TaxOwed(B - x)) - (B - TaxOwed(B)) + D) < Tolerance

\* C11, amended: the call returns, and the before-tax income g it returns
\* has an after-tax income g - tax(g) that is below A by D, to within 0.1:
\* |(A - (g - tax(g))) - D| <= 0.1.
C11_ReturnedIncomeMeetsDeduction ==
    /\ [](((call.name = "rrsp_before_tax_calc" /\ ~call.none)
            => LET A == call.pre.AT_original
                   D == call.arg
                   g == call.ret
               IN  Abs((A - (g - TaxOwed(g))) - D) <= Tolerance))
    /\ ((solver.pc = "loop") ~> (solver.pc = "idle"))

\* A call that returned after several passes with a positive deduction.
C11_Witness ==
    /\ call.name = "rrsp_before_tax_calc"
    /\ ~call.none
    /\ call.arg > 0
    /\ call.ret < call.pre.BT_original - call.arg
    /\ solver.pc = "idle"

(***************************************************************************)
(* Person (src/person.py).  Money is in dollars; the tax of an amount is   *)
(* computed on its tenths of a dollar.  tfsa_retirement_portion is in      *)
(* thousandths.  Person._settings is one object of the class, so every     *)
(* person record holds the same settings.                                  *)
(***************************************************************************)

\* Calls made on one person.
MaxPersonCalls == 2

\* Tenths of a dollar in a dollar.
DimesPerDollar == 10

\* Thousandths: the unit of tfsa_retirement_portion (1.0 is PortionUnit).
PortionUnit == 1000

\* tax_payable of src/expenses.py on an amount of dollars.
TaxPayableOn(income) == TaxOwed(income * DimesPerDollar) \div DimesPerDollar

\* Person.Settings
PersonSettings(allow_tfsa_withdrawal, retirement_age) ==
    [allow_tfsa_withdrawal |-> allow_tfsa_withdrawal,
     max_retirement_contribution |-> 15,
     annual_salary_increase |-> 3,
     retirement_age |-> retirement_age,
     index_fund_return |-> 7]

\* Person.__init__, with the class attributes _tfsa_retirement_portion and
\* _yearly_investment_taxable_income
NewPerson(age, yearly_salary_BT, tfsa, rrsp, taxable_account, emergency_fund, settings) ==
    [salary |-> yearly_salary_BT,
     age |-> age,
     tfsa |-> tfsa,
     rrsp |-> rrsp,
     nra |-> taxable_account,
     emergency_fund |-> emergency_fund,
     settings |-> settings,
     tfsa_retirement_portion |-> 0,
     yearly_investment_taxable_income |-> 0]

\* NonRegisteredAccount.capital_gains(amount)
NraGains(a, amount) ==
    IF a.balance = 0 THEN 0 ELSE NraCapitalGains(a, amount)

\* NonRegisteredAccount.withdraw(amount): the account afterwards, the amount
\* released and the taxable gain.
NraWithdrawn(a, amount) ==
    IF a.balance = 0
    THEN [account |-> a, ret |-> 0, gain |-> 0]
    ELSE [account |-> [a EXCEPT
                          !.investment_costs = NraCostsAfterWithdraw(a, amount),
                          !.balance = @ - Min(amount, a.balance)],
          ret |-> Min(amount, a.balance),
          gain |-> NraCapitalGains(a, amount)]

\* TFSA.withdraw(amount): the account afterwards and the amount released.
TfsaWithdrawn(a, amount) ==
    IF amount < 0
    THEN [account |-> a, ret |-> 0]
    ELSE LET withdraw_amount == WithdrawAmount(a.balance, amount)
         IN  [account |-> [a EXCEPT
                              !.curr_year_withdrawals = @ + withdraw_amount,
                              !.balance = @ - withdraw_amount],
              ret |-> withdraw_amount]

\* RRSP.withdraw(amount): the account afterwards and the amount released.
RrspWithdrawn(a, amount) ==
    IF amount < 0
    THEN [account |-> a, ret |-> 0]
    ELSE LET withdraw_amount == WithdrawAmount(a.balance, amount)
         IN  [account |-> [a EXCEPT !.balance = @ - withdraw_amount],
              ret |-> withdraw_amount]

\* self._tfsa.balance * (1 - self._tfsa_retirement_portion)
TfsaRegularPart(p) ==
    (p.tfsa.balance * (PortionUnit - p.tfsa_retirement_portion))
        \div PortionUnit

\* What Person.withdrawable_cash adds for the TFSA.
TfsaPartOfWithdrawable(p, include_retirement) ==
    IF include_retirement
    THEN p.tfsa.balance
    ELSE IF ~p.settings.allow_tfsa_withdrawal
         THEN TfsaRegularPart(p)
         ELSE 0

\* Person.withdrawable_cash(after_tax_calc, include_retirement)
WithdrawableCash(p, after_tax_calc, include_retirement) ==
    LET withdrawable_cash ==
            (IF include_retirement THEN p.rrsp.balance ELSE 0)
                + TfsaPartOfWithdrawable(p, include_retirement)
                + p.nra.balance
        additional_taxable_income ==
            (IF include_retirement THEN p.rrsp.balance ELSE 0)
                + NraGains(p.nra, p.nra.balance)
        additional_tax_payable ==
            TaxPayableOn(p.salary + additional_taxable_income
                             + p.yearly_investment_taxable_income)
                - TaxPayableOn(p.salary + p.yearly_investment_taxable_income)
    IN  IF ~after_tax_calc
        THEN withdrawable_cash
        ELSE withdrawable_cash - additional_tax_payable

\* Person.withdraw_cash after the NRA withdrawal, when the TFSA is drawn
\* first: the person afterwards and the total withdrawn.  p is the person
\* after the NRA withdrawal, total_withdrawn what the NRA released.
WithdrawRest(p, amount, total_withdrawn, tfsa_first) ==
    LET remaining1 == amount - total_withdrawn
        first == IF tfsa_first
                 THEN TfsaWithdrawn(p.tfsa, remaining1)
                 ELSE [account |-> p.tfsa, ret |-> 0]
        p1 == IF tfsa_first
              THEN [p EXCEPT
                       !.tfsa_retirement_portion =
                           (p.tfsa.balance * @)
                               \div (p.tfsa.balance - remaining1),
                       !.tfsa = first.account]
              ELSE p
        total1 == total_withdrawn + first.ret
        remaining2 == amount - total1
        rrsp == IF remaining2 > 0
                THEN RrspWithdrawn(p1.rrsp, Min(p1.rrsp.balance, remaining2))
                ELSE [account |-> p1.rrsp, ret |-> 0]
        p2 == [p1 EXCEPT !.rrsp = rrsp.account,
                         !.yearly_investment_taxable_income = @ + rrsp.ret]
        total2 == total1 + rrsp.ret
        remaining3 == amount - total2
        last == IF remaining3 > 0
                THEN TfsaWithdrawn(p2.tfsa, remaining3)
                ELSE [account |-> p2.tfsa, ret |-> 0]
    IN  [person |-> [p2 EXCEPT !.tfsa = last.account],
         ret |-> total2 + last.ret,
         raised |-> "none"]

\* Person.withdraw_cash(amount): the person afterwards, the returned amount
\* and the exception raised, if any.  The division that updates
\* tfsa_retirement_portion raises ZeroDivisionError when the TFSA is to be
\* emptied; the NRA withdrawal has been made by then.
WithdrawCash(p, amount) ==
    IF amount > WithdrawableCash(p, FALSE, TRUE)
    THEN [person |-> p, ret |-> 0, raised |-> "none"]
    ELSE LET nra == NraWithdrawn(p.nra, amount)
             p1 == [p EXCEPT
                       !.nra = nra.account,
                       !.yearly_investment_taxable_income = @ + nra.gain]
             remaining_withdraw == amount - nra.ret
             tfsa_first == /\ remaining_withdraw > 0
                           /\ p.tfsa_retirement_portion < PortionUnit
         IN  IF tfsa_first /\ p1.tfsa.balance - remaining_withdraw = 0
             THEN [person |-> p1, ret |-> 0, raised |-> "ZeroDivisionError"]
             ELSE WithdrawRest(p1, amount, nra.ret, tfsa_first)

PersonSalaries == {50000, 100000}

PersonTfsaBalances == {0, 1000}

PersonRrspBalances == {0, 500}

PersonNras == {NewNonRegisteredAccount(0, 0), NewNonRegisteredAccount(200, 100),
               NewNonRegisteredAccount(1000, 0)}

Portions == {0, 250, 1000}

WithdrawAmounts == {0, 400, 700, 1000, 1200, 1700}

NoPersonHistory == [calls |-> 0, raised |-> "none"]

PersonInit ==
    /\ taxes = Unused
    /\ mortgage = Unused
    /\ payoff = Unused
    /\ account = Unused
    /\ unit = Unused
    /\ solver = Unused
    /\ history = NoPersonHistory
    /\ \E salary \in PersonSalaries, t \in PersonTfsaBalances,
          r \in PersonRrspBalances, n \in PersonNras, portion \in Portions,
          allow \in BOOLEAN :
           persons = <<[NewPerson(30, salary, NewTFSA(t, 0), NewRRSP(r, 0, 27230, 18),
                                  n, NewEmergencyFund(0, 6),
                                  PersonSettings(allow, 65))
                           EXCEPT !.tfsa_retirement_portion = portion]>>
    /\ call = [NoCall EXCEPT !.pre = persons[1]]

\* Person.withdrawable_cash(after_tax_calc, include_retirement)
WithdrawableCashCall(after_tax_calc, include_retirement) ==
    /\ history.calls < MaxPersonCalls
    /\ call' = [NoCall EXCEPT
                   !.name = "withdrawable_cash",
                   !.arg = [after_tax_calc |-> after_tax_calc,
                            include_retirement |-> include_retirement],
                   !.ret = WithdrawableCash(persons[1], after_tax_calc,
                                            include_retirement),
                   !.pre = persons[1]]
    /\ history' = [history EXCEPT !.calls = @ + 1, !.raised = "none"]
    /\ UNCHANGED <<persons, unit, solver, taxes, mortgage, payoff, account>>

\* Person.withdraw_cash(amount)
WithdrawCashCall(amount) ==
    /\ history.calls < MaxPersonCalls
    /\ LET done == WithdrawCash(persons[1], amount)
       IN  /\ persons' = <<done.person>>
           /\ call' = [NoCall EXCEPT
                          !.name = "withdraw_cash", !.arg = amount,
                          !.ret = done.ret,
                          !.none = (done.raised # "none"),
                          !.pre = persons[1]]
           /\ history' = [history EXCEPT !.calls = @ + 1,
                                         !.raised = done.raised]
    /\ UNCHANGED <<unit, solver, taxes, mortgage, payoff, account>>

PersonNext ==
    \/ \E after_tax_calc \in BOOLEAN, include_retirement \in BOOLEAN :
           WithdrawableCashCall(after_tax_calc, include_retirement)
    \/ \E amount \in WithdrawAmounts : WithdrawCashCall(amount)

SpecPerson == PersonInit /\ [][PersonNext]_vars

\* C12: withdrawable_cash(after_tax_calc=False, include_retirement=False) is
\* the whole balance of the taxable account plus, of the TFSA, the whole
\* balance when allow_tfsa_withdrawal is set and balance * (1 -
\* tfsa_retirement_portion) otherwise; the RRSP balance is not counted.
C12_WithdrawableCountsTfsaWhenAllowed ==
    (/\ call.name = "withdrawable_cash"
     /\ ~call.arg.after_tax_calc
     /\ ~call.arg.include_retirement)
        => LET p == call.pre
           IN  call.ret
                   = p.nra.balance
                         + (IF p.settings.allow_tfsa_withdrawal
                            THEN p.tfsa.balance
                            ELSE (p.tfsa.balance
                                      * (PortionUnit - p.tfsa_retirement_portion))
                                     \div PortionUnit)

\* C13: withdraw_cash(amount) with amount above the after-tax ceiling
\* withdrawable_cash(after_tax_calc=True) returns 0 and leaves the person
\* (balances, cost basis, retirement portion, realized taxable income) as it
\* was.
C13_WithdrawAboveCeilingRefused ==
    (/\ call.name = "withdraw_cash"
     /\ call.arg > WithdrawableCash(call.pre, TRUE, FALSE))
        => /\ history.raised = "none"
           /\ call.ret = 0
           /\ persons[1] = call.pre

\* C14: withdraw_cash(amount) with 0 <= amount <= ceiling completes without
\* an error, returns amount, lowers taxable + TFSA + RRSP balances by amount
\* in all, touches the TFSA only when the taxable account was emptied and the
\* RRSP only when the taxable account was emptied too, and adds the realized
\* gain of the taxable account plus what the RRSP released to the realized
\* taxable income.
C14_AcceptedWithdrawalIsExact ==
    (/\ call.name = "withdraw_cash"
     /\ call.arg >= 0
     /\ call.arg <= WithdrawableCash(call.pre, TRUE, FALSE)
     /\ call.arg <= WithdrawableCash(call.pre, FALSE, TRUE))
        => LET before == call.pre
               after == persons[1]
           IN  /\ history.raised = "none"
               /\ call.ret = call.arg
               /\ (before.nra.balance + before.tfsa.balance
                       + before.rrsp.balance)
                      - (after.nra.balance + after.tfsa.balance
                             + after.rrsp.balance)
                      = call.arg
               /\ after.tfsa.balance # before.tfsa.balance
                      => after.nra.balance = 0
               /\ after.rrsp.balance # before.rrsp.balance
                      => after.nra.balance = 0
               /\ after.yearly_investment_taxable_income
                      = before.yearly_investment_taxable_income
                            + NraGains(before.nra, call.arg)
                            + (before.rrsp.balance - after.rrsp.balance)

(***************************************************************************)
(* Household (src/financial_unit.py).  Money is in dollars, as for the     *)
(* person; the mortgage of the household holds dollars too.  The module    *)
(* imports rrsp_before_tax_calc, which src/savings.py defines.             *)
(* increment_n_years is followed step by step: `unit.pc` is the place the  *)
(* interpreter is at, and the locals of the running call are fields of     *)
(* `unit`.  An exception that leaves increment_n_years ends the run at     *)
(* pc = "raised".                                                          *)
(***************************************************************************)

\* Years asked of one household in one behaviour.
MaxYears == 2

\* ei_contribution(income), in whole dollars.
EiContribution(income) == Min(889, (income * 158) \div 10000)

\* cpp_contribution(income), in whole dollars.
CppContribution(income) == Min(3166, ((income - 3500) * 495) \div 10000)

\* LivingExpenses.__init__ without children.
NewLivingExpenses(living_costs, rent) ==
    [living_costs |-> living_costs, rent |-> rent, children_ages |-> <<>>,
     child_cost |-> <<1833, 1500>> \o [i \in 1 .. 18 |-> 500]]

\* LivingExpenses.monthly_living_costs: the sum over the children from the
\* i-th on.
RECURSIVE ChildCosts(_, _)
ChildCosts(le, i) ==
    IF i > Len(le.children_ages)
    THEN 0
    ELSE (IF le.children_ages[i] >= Len(le.child_cost)
          THEN 0
          ELSE le.child_cost[le.children_ages[i] + 1])
             + ChildCosts(le, i + 1)

\* LivingExpenses.monthly_living_costs(include_rent)
MonthlyLivingCosts(le, include_rent) ==
    le.living_costs + (IF include_rent THEN le.rent ELSE 0) + ChildCosts(le, 1)

\* LivingExpenses.increment_year(include_rent): the object afterwards and
\* the returned annual expenses.
LivingIncrementYear(le, include_rent) ==
    [living_expenses |->
         [le EXCEPT !.children_ages =
                        [i \in 1 .. Len(le.children_ages) |->
                             le.children_ages[i] + 1]],
     ret |-> 12 * MonthlyLivingCosts(le, include_rent)]

\* Expense.year_cost(year)
YearCost(e, year) ==
    IF e.initial_year = year
    THEN e.amount
    ELSE IF e.recurrance = 0
         THEN 0
         ELSE IF (year - e.initial_year) % e.recurrance = 0
              THEN e.amount
              ELSE 0

\* The loop `for expense in self._expenses` from the i-th expense on.
RECURSIVE ExpensesCost(_, _, _)
ExpensesCost(expenses, year, i) ==
    IF i > Len(expenses)
    THEN 0
    ELSE YearCost(expenses[i], year) + ExpensesCost(expenses, year, i + 1)

\* The loop `for year_have_child in self._children` from the i-th child on:
\* the living expenses after the calls of add_child.
RECURSIVE ChildrenAdded(_, _, _, _)
ChildrenAdded(le, children, year, i) ==
    IF i > Len(children)
    THEN le
    ELSE ChildrenAdded(IF children[i] = year
                       THEN [le EXCEPT !.children_ages = Append(@, 0)]
                       ELSE le,
                       children, year, i + 1)

\* FinancialUnit.__annual_living_expenses: the living expenses afterwards
\* and the returned total.
AnnualLivingExpenses(u, m) ==
    LET le == ChildrenAdded(u.living_expenses, u.children, u.year, 1)
        owned == u.goal /\ u.active
        done == LivingIncrementYear(le, ~owned)
    IN  [living_expenses |-> done.living_expenses,
         ret |-> (IF owned /\ ~IsHousePaid(m) THEN ExpectedNCost(m, 12) ELSE 0)
                     + done.ret
                     + ExpensesCost(u.expenses, u.year, 1)]

\* The sum of the first k numbers of a sequence.
RECURSIVE SumOf(_, _)
SumOf(s, k) == IF k = 0 THEN 0 ELSE s[k] + SumOf(s, k - 1)

\* FinancialUnit.__withdrawable_cash(after_tax_calc): the list it returns.
HouseholdWithdrawableCash(ps, after_tax_calc) ==
    [i \in 1 .. Len(ps) |-> WithdrawableCash(ps[i], after_tax_calc, FALSE)]

\* withdraw_amount = cash * ratio, with ratio = amount / sum
WithdrawShare(cash, amount, sum) == (cash * amount) \div sum

\* The loop of FinancialUnit.__withdraw_cash from the i-th person on:
\* the persons afterwards, the amounts they released so far and the
\* exception of a person's withdraw_cash, which ends the loop.
RECURSIVE WithdrawEach(_, _, _, _, _, _)
WithdrawEach(ps, cash, amount, sum, i, released) ==
    IF i > Len(ps)
    THEN [persons |-> ps, ret |-> amount, released |-> released,
          raised |-> "none"]
    ELSE CHOOSE each \in
             {IF done.raised # "none"
              THEN [persons |-> [ps EXCEPT ![i] = done.person], ret |-> 0,
                    released |-> released, raised |-> done.raised]
              ELSE WithdrawEach([ps EXCEPT ![i] = done.person], cash, amount,
                                sum, i + 1, released + done.ret) :
                  done \in {WithdrawCash(ps[i],
                                         WithdrawShare(cash[i], amount,
                                                       sum))}} : TRUE

\* FinancialUnit.__withdraw_cash(amount): `ratio = amount / sum` raises
\* ZeroDivisionError when no person has withdrawable cash.
HouseholdWithdrawCash(ps, amount) ==
    LET cash == HouseholdWithdrawableCash(ps, TRUE)
        sum == SumOf(cash, Len(ps))
    IN  IF sum < amount
        THEN [persons |-> ps, ret |-> 0, released |-> 0, raised |-> "none"]
        ELSE IF sum = 0
             THEN [persons |-> ps, ret |-> 0, released |-> 0,
                   raised |-> "ZeroDivisionError"]
             ELSE WithdrawEach(ps, cash, amount, sum, 1, 0)

\* rrsp_before_tax_calc run to its end.  Once AT_guess is above AT_original
\* with a positive diff, every pass raises BT_guess and diff; the floats of
\* the program then grow to inf, the condition of the loop becomes a
\* comparison with nan, and the function returns inf.
RECURSIVE SolverRun(_)
SolverRun(s) ==
    IF ~SolverContinues(s)
    THEN [inf |-> FALSE, ret |-> s.BT_guess]
    ELSE IF s.AT_guess > s.AT_original /\ SolverDiff(s) > 0
         THEN [inf |-> TRUE, ret |-> 0]
         ELSE CHOOSE run \in {SolverRun(next) : next \in {SolverPass(s)}} :
                  TRUE

EmergencyFundUntouched(a, amount) == a

\* EmergencyFund.deposit(amount): the balance afterwards.
EmergencyFundDeposited(a, amount) ==
    IF amount < 0 THEN a ELSE [a EXCEPT !.balance = @ + amount]

DepositedBeyondRoom(a, amount) ==
    IF amount < 0
    THEN [account |-> a, ret |-> 0]
    ELSE [account |-> [a EXCEPT !.balance = @ + amount,
                                !.contribution_room = @ - amount],
          ret |-> amount]

\* RegisteredAccount.deposit(amount): the account afterwards and the amount
\* accepted.
Deposited(a, amount) ==
    IF amount < 0
    THEN [account |-> a, ret |-> 0]
    ELSE LET deposit_amount == DepositAmount(a.contribution_room, amount)
         IN  [account |-> [a EXCEPT !.balance = @ + deposit_amount,
                                    !.contribution_room = @ - deposit_amount],
              ret |-> deposit_amount]

\* FinancialUnit.__emergency_fund_contribution for person p of n persons:
\* the person and the living expenses afterwards, the target
\* emergency_months * per_person_monthly_expenses and the returned
\* remaining balance.
EmergencyFundContribution(u, m, p, n, net_positive) ==
    LET annual == AnnualLivingExpenses(u, m)
        monthly_expenses == annual.ret \div 12
        per_person_monthly_expenses == monthly_expenses \div n
        required_contribution ==
            p.emergency_fund.emergency_months * per_person_monthly_expenses
                - p.emergency_fund.balance
        emergency_fund_deposit == Min(required_contribution, net_positive)
        emergency_fund_withdrawal == -required_contribution
    IN  IF required_contribution > 0
        THEN [person |-> [p EXCEPT !.emergency_fund =
                              EmergencyFundDeposited(@, emergency_fund_deposit)],
              living_expenses |-> annual.living_expenses,
              target |-> p.emergency_fund.emergency_months
                             * per_person_monthly_expenses,
              remaining_balance |-> net_positive - emergency_fund_deposit]
        ELSE [person |-> [p EXCEPT !.emergency_fund.balance =
                              @ - WithdrawAmount(@, emergency_fund_withdrawal)],
              living_expenses |-> annual.living_expenses,
              target |-> p.emergency_fund.emergency_months
                             * per_person_monthly_expenses,
              remaining_balance |-> net_positive + emergency_fund_withdrawal]

\* FinancialUnit.__tfsa_contribution: the person afterwards and the two
\* returned amounts.
TfsaContribution(u, m, p, remaining_contribution_retirement, remaining_balance) ==
    LET tfsa_retirement_amount ==
            (p.tfsa.balance * p.tfsa_retirement_portion) \div PortionUnit
        limited == /\ u.goal
                   /\ ~IsHousePaid(m)
                   /\ ~p.settings.allow_tfsa_withdrawal
        done == IF limited
                THEN Deposited(p.tfsa,
                               Min(p.tfsa.contribution_room,
                                   Min(remaining_contribution_retirement,
                                       remaining_balance)))
                ELSE Deposited(p.tfsa, remaining_balance)
        amount_deposited ==
            IF limited
            THEN Min(p.tfsa.contribution_room,
                     Min(remaining_contribution_retirement, remaining_balance))
            ELSE done.ret
        added_tfsa_retirement_portion ==
            IF limited
            THEN amount_deposited
            ELSE Min(amount_deposited, remaining_contribution_retirement)
        amount1 == tfsa_retirement_amount + added_tfsa_retirement_portion
        retirement1 ==
            remaining_contribution_retirement - added_tfsa_retirement_portion
        retirement_conversion_amount ==
            Max(0, Min(retirement1, done.account.balance - amount1))
        amount2 == amount1 + retirement_conversion_amount
    IN  [person |-> [p EXCEPT
                        !.tfsa = done.account,
                        !.tfsa_retirement_portion =
                            IF done.account.balance = 0
                            THEN 0
                            ELSE (amount2 * PortionUnit)
                                     \div done.account.balance],
         remaining_contribution_retirement |->
             retirement1 - retirement_conversion_amount,
         remaining_balance |-> remaining_balance - amount_deposited]

\* RRSP_AT_contribution of FinancialUnit.__rrsp_contribution
RrspAtContribution(u, m, p, remaining_contribution_retirement, remaining_balance) ==
    IF \/ remaining_contribution_retirement > 0
       \/ (u.goal /\ ~IsHousePaid(m))
    THEN Min(p.rrsp.contribution_room,
             Min(remaining_contribution_retirement, remaining_balance))
    ELSE Min(p.rrsp.contribution_room, remaining_balance)

\* FinancialUnit.__rrsp_contribution: the person afterwards and the returned
\* remaining balance.  A solver result of inf makes the deposit negative, so
\* that nothing is deposited.
RrspContribution(u, m, p, remaining_contribution_retirement, remaining_balance, bt_income, at_income) ==
    LET RRSP_AT_contribution ==
            RrspAtContribution(u, m, p, remaining_contribution_retirement,
                               remaining_balance)
        solved == SolverRun(SolverStart(RRSP_AT_contribution * DimesPerDollar,
                                        at_income * DimesPerDollar,
                                        bt_income * DimesPerDollar))
        max_BT_contribution == solved.ret \div DimesPerDollar
        done == IF solved.inf
                THEN [account |-> p.rrsp, ret |-> 0]
                ELSE Deposited(p.rrsp, bt_income - max_BT_contribution)
        BT_contributed == done.ret
        extra_AT_money ==
            IF ~solved.inf /\ BT_contributed = max_BT_contribution
            THEN TaxPayableOn(bt_income - max_BT_contribution)
                     - TaxPayableOn(bt_income - BT_contributed)
            ELSE 0
    IN  [person |-> [p EXCEPT !.rrsp = done.account],
         solved |-> solved,
         RRSP_AT_contribution |-> RRSP_AT_contribution,
         remaining_balance |->
             remaining_balance + extra_AT_money - RRSP_AT_contribution]

\* NonRegisteredAccount.deposit(amount)
NraDeposited(a, amount) ==
    [a EXCEPT !.balance = @ + amount, !.investment_costs = @ + amount]

\* remaining_contribution_retirement =
\*     max_retirement_contribution * at_income
RetirementContribution(p, at_income) ==
    (p.settings.max_retirement_contribution * at_income) \div 100

PaysHouseDownBeforePurchase(u, m) ==
    /\ u.settings.pay_house_down_asap
    /\ u.goal
    /\ ~IsHousePaid(m)

\* The condition of the additional payment on the mortgage in
\* __calculate_person_contribution.
PaysHouseDown(u, m) ==
    /\ u.settings.pay_house_down_asap
    /\ u.goal
    /\ u.active
    /\ ~IsHousePaid(m)

AgeInSameYear(p) == p.age

\* self._persons[person_i]._age += 1
AgeAfterYear(p) == p.age + 1

\* The end-of-year roll-forward of one person in increment_n_years.
RollForward(p) ==
    LET salary == Grow(p.salary, p.settings.annual_salary_increase)
    IN  [p EXCEPT
            !.yearly_investment_taxable_income = 0,
            !.salary = IF p.age = p.settings.retirement_age
                       THEN 0
                       ELSE salary,
            !.tfsa = [@ EXCEPT
                         !.balance = Grow(@, p.settings.index_fund_return),
                         !.contribution_room = TfsaRoomAfterYear(p.tfsa),
                         !.curr_year_withdrawals = 0],
            !.rrsp = [@ EXCEPT
                         !.balance = Grow(@, p.settings.index_fund_return),
                         !.contribution_room =
                             @ + RoomIncrease(p.rrsp, salary)],
            !.nra = [@ EXCEPT
                        !.balance = Grow(@, p.settings.index_fund_return)],
            !.age = AgeAfterYear(p)]

\* BalanceTracker.__init__
NewBalanceTracker ==
    [tfsa_balance |-> <<>>, emergency_fund |-> <<>>, rrsp_balance |-> <<>>,
     nra_balance |-> <<>>, mortgage_principal |-> <<>>, years |-> <<>>]

\* BalanceTracker.prepare_next_iteration(year)
PrepareNextIteration(bt, year) ==
    [tfsa_balance |-> Append(bt.tfsa_balance, 0),
     emergency_fund |-> Append(bt.emergency_fund, 0),
     rrsp_balance |-> Append(bt.rrsp_balance, 0),
     nra_balance |-> Append(bt.nra_balance, 0),
     mortgage_principal |-> Append(bt.mortgage_principal, 0),
     years |-> Append(bt.years, year)]

\* list[-1] += amount
AddToLast(list, amount) == [list EXCEPT ![Len(list)] = @ + amount]

\* The four `self._balance_tracker._...[-1] += ...` of increment_n_years.
Tracked(bt, p) ==
    [bt EXCEPT !.emergency_fund = AddToLast(@, p.emergency_fund.balance),
               !.tfsa_balance = AddToLast(@, p.tfsa.balance),
               !.rrsp_balance = AddToLast(@, p.rrsp.balance),
               !.nra_balance = AddToLast(@, p.nra.balance)]

\* The households constructed: their persons and living expenses.  Single
\* persons: a saver, a low earner with and without savings, a person about
\* to retire and a person past the retirement age; a couple of which one
\* person runs short; a couple that can afford a down payment only after
\* the first person's savings of the year; a person with a child scheduled
\* (new_child) for the first year and a couple with a child scheduled for
\* the second; a low earner whose TFSA holds exactly the first year's
\* shortfall.
Households(settings) ==
    {[persons |->
          <<NewPerson(30, 40000, NewTFSA(0, 6000), NewRRSP(0, 5000, 27230, 18),
                      NewNonRegisteredAccount(12000, 8000),
                      NewEmergencyFund(6000, 6), settings)>>,
      living_expenses |-> NewLivingExpenses(1000, 1250), children |-> <<>>],
     [persons |->
          <<NewPerson(30, 12000, NewTFSA(0, 0), NewRRSP(0, 0, 27230, 18),
                      NewNonRegisteredAccount(20000, 20000),
                      NewEmergencyFund(0, 6), settings)>>,
      living_expenses |-> NewLivingExpenses(1000, 1250), children |-> <<>>],
     [persons |->
          <<NewPerson(30, 12000, NewTFSA(0, 0), NewRRSP(0, 0, 27230, 18),
                      NewNonRegisteredAccount(0, 0),
                      NewEmergencyFund(0, 6), settings)>>,
      living_expenses |-> NewLivingExpenses(1000, 1250), children |-> <<>>],
     [persons |->
          <<NewPerson(64, 40000, NewTFSA(0, 0), NewRRSP(30000, 0, 27230, 18),
                      NewNonRegisteredAccount(10000, 10000),
                      NewEmergencyFund(0, 6), settings)>>,
      living_expenses |-> NewLivingExpenses(1000, 1250), children |-> <<>>],
     [persons |->
          <<NewPerson(70, 40000, NewTFSA(0, 0), NewRRSP(0, 0, 27230, 18),
                      NewNonRegisteredAccount(0, 0),
                      NewEmergencyFund(20000, 6), settings)>>,
      living_expenses |-> NewLivingExpenses(1000, 1250), children |-> <<>>],
     [persons |->
          <<NewPerson(30, 40000, NewTFSA(0, 6000), NewRRSP(0, 5000, 27230, 18),
                      NewNonRegisteredAccount(12000, 8000),
                      NewEmergencyFund(6000, 6), settings),
            NewPerson(40, 30000, NewTFSA(8000, 0), NewRRSP(2000, 0, 27230, 18),
                      NewNonRegisteredAccount(0, 0),
                      NewEmergencyFund(0, 6), settings)>>,
      living_expenses |-> NewLivingExpenses(2000, 2500), children |-> <<>>],
     [persons |->
          <<NewPerson(30, 40000, NewTFSA(0, 0), NewRRSP(0, 0, 27230, 18),
                      NewNonRegisteredAccount(6000, 6000),
                      NewEmergencyFund(13500, 6), settings),
            NewPerson(35, 40000, NewTFSA(0, 0), NewRRSP(0, 0, 27230, 18),
                      NewNonRegisteredAccount(3000, 3000),
                      NewEmergencyFund(13500, 6), settings)>>,
      living_expenses |-> NewLivingExpenses(2000, 2500), children |-> <<>>],
     [persons |->
          <<NewPerson(30, 40000, NewTFSA(0, 6000), NewRRSP(0, 5000, 27230, 18),
                      NewNonRegisteredAccount(0, 0),
                      NewEmergencyFund(6000, 6), settings)>>,
      living_expenses |-> NewLivingExpenses(300, 300), children |-> <<2022>>],
     [persons |->
          <<NewPerson(30, 40000, NewTFSA(0, 6000), NewRRSP(0, 5000, 27230, 18),
                      NewNonRegisteredAccount(0, 0),
                      NewEmergencyFund(6000, 6), settings),
            NewPerson(35, 40000, NewTFSA(0, 0), NewRRSP(0, 0, 27230, 18),
                      NewNonRegisteredAccount(0, 0),
                      NewEmergencyFund(6000, 6), settings)>>,
      living_expenses |-> NewLivingExpenses(200, 200), children |-> <<2023>>],
     [persons |->
          <<NewPerson(30, 12000, NewTFSA(15670, 0), NewRRSP(0, 0, 27230, 18),
                      NewNonRegisteredAccount(0, 0),
                      NewEmergencyFund(0, 6), settings)>>,
      living_expenses |-> NewLivingExpenses(1000, 1250), children |-> <<>>],
     [persons |->
          <<NewPerson(30, 40000, NewTFSA(0, 0), NewRRSP(0, 5000, 27230, 18),
                      NewNonRegisteredAccount(0, 0),
                      NewEmergencyFund(13500, 6), settings)>>,
      living_expenses |-> NewLivingExpenses(1000, 1250), children |-> <<>>],
     [persons |->
          <<NewPerson(30, 40000, NewTFSA(0, 0), NewRRSP(0, 12000, 27230, 18),
                      NewNonRegisteredAccount(0, 0),
                      NewEmergencyFund(13500, 6), settings)>>,
      living_expenses |-> NewLivingExpenses(1000, 1250), children |-> <<>>]}

\* The mortgages a household asks for: 20 percent down and nothing down.
HouseholdMortgages ==
    {NewMortgage(50000, 10000, 12, 5), NewMortgage(30000, 0, 12, 5)}

\* The class attribute _balance_tracker when a household is constructed:
\* new, or holding the year of a household that ran before.
TrackersAtConstruction ==
    {NewBalanceTracker,
     [PrepareNextIteration(NewBalanceTracker, 2020) EXCEPT
         !.nra_balance = <<5000>>]}

NoHouseholdHistory ==
    [init_ages |-> <<>>, asked |-> 0, down_payments |-> 0, released |-> 0,
     raised |-> "none", refused |-> FALSE, entries |-> 0]

\* FinancialUnit.__init__ with the class attributes of FinancialUnit.
HouseholdInit ==
    /\ taxes = Unused
    /\ payoff = Unused
    /\ account = Unused
    /\ solver = Unused
    /\ mortgage = Unused
    /\ call = NoCall
    /\ \E allow \in BOOLEAN, bt \in TrackersAtConstruction :
           \E h \in Households(PersonSettings(allow, 65)) :
               /\ persons = h.persons
               /\ unit = [year |-> 2022, init_year |-> 2022,
                          goal |-> FALSE, active |-> FALSE,
                          settings |-> [pay_house_down_asap |-> TRUE],
                          balance_tracker |-> bt,
                          living_expenses |-> h.living_expenses,
                          children |-> h.children, expenses |-> <<>>,
                          alloc |-> Unused,
                          pc |-> "idle", years_left |-> 0, person_i |-> 0,
                          withdrawn_cash |-> 0, net_positive |-> 0,
                          bt_income |-> 0, at_income |-> 0, odd |-> FALSE]
               /\ history = [NoHouseholdHistory EXCEPT
                                !.init_ages = [i \in 1 .. Len(persons) |->
                                                   persons[i].age],
                                !.entries = Len(bt.years)]

\* FinancialUnit.house_purchase(mortgage), called once, before the first
\* simulated year.
HousePurchase(m) ==
    /\ unit.pc = "idle"
    /\ ~unit.goal
    /\ history.asked = 0
    /\ unit' = [unit EXCEPT !.goal = TRUE, !.active = FALSE]
    /\ mortgage' = m
    /\ call' = [NoCall EXCEPT !.name = "house_purchase", !.none = TRUE]
    /\ UNCHANGED <<persons, history, solver, taxes, payoff, account>>

\* A call increment_n_years(n).
IncrementNYearsCall(n) ==
    /\ unit.pc = "idle"
    /\ history.asked + n <= MaxYears
    /\ unit' = [unit EXCEPT !.pc = "year", !.years_left = n]
    /\ history' = [history EXCEPT !.asked = @ + n]
    /\ call' = [NoCall EXCEPT !.name = "increment_n_years", !.arg = n,
                              !.none = TRUE]
    /\ UNCHANGED <<persons, mortgage, solver, taxes, payoff, account>>

\* `for _ in range(n)`: the range is exhausted and the call returns.
IncrementNYearsReturn ==
    /\ unit.pc = "year"
    /\ unit.years_left = 0
    /\ unit' = [unit EXCEPT !.pc = "idle"]
    /\ call' = [NoCall EXCEPT !.name = "increment_n_years_return",
                              !.none = TRUE]
    /\ UNCHANGED <<persons, mortgage, history, solver, taxes, payoff,
                   account>>

\* The beginning of one year: prepare_next_iteration and the first person.
BeginYear ==
    /\ unit.pc = "year"
    /\ unit.years_left > 0
    /\ unit' = [unit EXCEPT
                   !.balance_tracker = PrepareNextIteration(@, unit.year),
                   !.person_i = 1,
                   !.pc = "contribution"]
    /\ call' = [NoCall EXCEPT !.name = "prepare_next_iteration",
                              !.arg = unit.year, !.none = TRUE]
    /\ UNCHANGED <<persons, mortgage, history, solver, taxes, payoff,
                   account>>

\* __calculate_person_contribution up to its while loop: __purchase_house
\* while the goal is not active, and the withdrawal of the person's whole
\* non-retirement cash once it is.
BeginContribution ==
    /\ unit.pc = "contribution"
    /\ LET i == unit.person_i
       IN  IF ~unit.goal
           THEN /\ unit' = [unit EXCEPT !.pc = "shortfall",
                                        !.withdrawn_cash = 0,
                                        !.net_positive = -1]
                /\ call' = [NoCall EXCEPT !.name = "no_goal", !.none = TRUE]
                /\ UNCHANGED <<persons, history>>
           ELSE IF ~unit.active
           THEN \E done \in {HouseholdWithdrawCash(persons,
                                                     mortgage.down_payment)} :
                    /\ persons' = done.persons
                    /\ call' = [NoCall EXCEPT
                                   !.name = "__withdraw_cash",
                                   !.arg = mortgage.down_payment,
                                   !.ret = done.ret,
                                   !.gain = done.released,
                                   !.none = (done.raised # "none"),
                                   !.pre = persons]
                    /\ history' = [history EXCEPT
                                      !.raised = done.raised,
                                      !.released = @ + done.released,
                                      !.down_payments =
                                          IF done.released > 0
                                          THEN @ + 1
                                          ELSE @]
                    /\ unit' = IF done.raised # "none"
                               THEN [unit EXCEPT !.pc = "raised"]
                               ELSE [unit EXCEPT
                                        !.active = (done.ret # 0),
                                        !.pc = "shortfall",
                                        !.withdrawn_cash = 0,
                                        !.net_positive = -1]
           ELSE \E done \in {WithdrawCash(persons[i],
                                            WithdrawableCash(persons[i], FALSE,
                                                             FALSE))} :
                    /\ persons' = [persons EXCEPT ![i] = done.person]
                    /\ call' = [NoCall EXCEPT
                                   !.name = "withdraw_cash",
                                   !.arg = WithdrawableCash(persons[i], FALSE,
                                                            FALSE),
                                   !.ret = done.ret,
                                   !.none = (done.raised # "none"),
                                   !.pre = persons]
                    /\ history' = [history EXCEPT !.raised = done.raised]
                    /\ unit' = IF done.raised # "none"
                               THEN [unit EXCEPT !.pc = "raised"]
                               ELSE [unit EXCEPT
                                        !.pc = "shortfall",
                                        !.withdrawn_cash = done.ret,
                                        !.net_positive = -1]
    /\ UNCHANGED <<mortgage, solver, taxes, payoff, account>>

\* One pass of `while net_positive < 0` of __calculate_person_contribution.
\* The pass toggles unit.odd, so that a loop that runs forever is a cycle
\* of the model.
ShortfallPass ==
    /\ unit.pc = "shortfall"
    /\ LET i == unit.person_i
           p == persons[i]
           bt_income == p.salary + p.yearly_investment_taxable_income
           ei_amount == EiContribution(bt_income)
           cpp_amount == CppContribution(bt_income)
           tax == TaxPayableOn(bt_income)
       IN  \E at_income \in {bt_income - tax - ei_amount - cpp_amount},
              annual \in {AnnualLivingExpenses(unit, mortgage)} :
           \E net_positive \in {at_income + unit.withdrawn_cash
                                    - annual.ret \div Len(persons)} :
           \E done \in {IF net_positive < 0
                        THEN WithdrawCash(p, -net_positive)
                        ELSE [person |-> p, ret |-> 0, raised |-> "none"]} :
           \E u1 \in {[unit EXCEPT
                          !.living_expenses = annual.living_expenses,
                          !.bt_income = bt_income,
                          !.at_income = at_income,
                          !.net_positive = net_positive,
                          !.withdrawn_cash = @ + done.ret,
                          !.odd = ~@]} :
               /\ persons' = [persons EXCEPT ![i] = done.person]
               /\ unit' = IF done.raised # "none"
                          THEN [u1 EXCEPT !.pc = "raised"]
                          ELSE IF net_positive < 0
                               THEN u1
                               ELSE [u1 EXCEPT !.pc = "allocate",
                                               !.odd = FALSE]
               /\ history' = [history EXCEPT
                                 !.raised = done.raised,
                                 !.refused = /\ net_positive < 0
                                             /\ done.raised = "none"
                                             /\ done.ret = 0]
               /\ call' = [NoCall EXCEPT
                              !.name = "shortfall_pass",
                              !.arg = -net_positive,
                              !.ret = done.ret,
                              !.gain = annual.ret \div Len(persons),
                              !.none = (net_positive >= 0),
                              !.pre = persons]
    /\ UNCHANGED <<mortgage, solver, taxes, payoff, account>>

\* __calculate_person_contribution after its while loop: the emergency
\* fund, the TFSA, the RRSP, the additional payment on the mortgage and the
\* deposit of what is left in the non-registered account.
Allocate ==
    /\ unit.pc = "allocate"
    /\ LET i == unit.person_i
           n == Len(persons)
       IN  \E ef \in {EmergencyFundContribution(unit, mortgage, persons[i], n,
                                                unit.net_positive)} :
           \E tfsa \in {TfsaContribution(
                            unit, mortgage, ef.person,
                            RetirementContribution(persons[i], unit.at_income),
                            ef.remaining_balance)} :
           \E rrsp \in {RrspContribution(
                            unit, mortgage, tfsa.person,
                            tfsa.remaining_contribution_retirement,
                            tfsa.remaining_balance, unit.bt_income,
                            unit.at_income)} :
           \E additional_payment \in
                  {IF PaysHouseDown(unit, mortgage)
                   THEN AmountPaid(rrsp.remaining_balance,
                                   mortgage.principal_remaining)
                   ELSE 0} :
               /\ persons' = [persons EXCEPT ![i] =
                                 [rrsp.person EXCEPT !.nra =
                                     NraDeposited(@, rrsp.remaining_balance
                                                         - additional_payment)]]
               /\ mortgage' = IF PaysHouseDown(unit, mortgage)
                              THEN [mortgage EXCEPT !.principal_remaining =
                                                        @ - additional_payment]
                              ELSE mortgage
               /\ unit' = [unit EXCEPT
                              !.living_expenses = ef.living_expenses,
                              !.alloc =
                                  [ef |-> ef, tfsa |-> tfsa, rrsp |-> rrsp,
                                   additional_payment |-> additional_payment,
                                   mortgage |-> mortgage],
                              !.pc = "roll"]
               /\ call' = [NoCall EXCEPT
                              !.name = "__calculate_person_contribution",
                              !.arg = unit.net_positive,
                              !.ret = rrsp.remaining_balance
                                          - additional_payment,
                              !.gain = additional_payment,
                              !.none = rrsp.solved.inf,
                              !.pre = persons]
    /\ UNCHANGED <<history, solver, taxes, payoff, account>>

\* The rest of the body of `for person_i in range(len(self._persons))`:
\* the roll-forward of the person and the person's balances added to the
\* last entry of the balance tracker.
RollForwardPerson ==
    /\ unit.pc = "roll"
    /\ LET i == unit.person_i
           p == RollForward(persons[i])
       IN  /\ persons' = [persons EXCEPT ![i] = p]
           /\ unit' = [unit EXCEPT
                          !.balance_tracker = Tracked(@, p),
                          !.alloc = Unused,
                          !.person_i = IF i < Len(persons) THEN i + 1 ELSE 0,
                          !.pc = IF i < Len(persons)
                                 THEN "contribution"
                                 ELSE "year_end"]
           /\ call' = [NoCall EXCEPT !.name = "roll_forward", !.arg = i,
                                     !.none = TRUE, !.pre = persons]
    /\ UNCHANGED <<mortgage, history, solver, taxes, payoff, account>>

\* The end of one year: the mortgage entry of the balance tracker, the
\* twelve months of an active mortgage and the next year.
EndYear ==
    /\ unit.pc = "year_end"
    /\ LET bt == unit.balance_tracker
           k == Len(bt.mortgage_principal)
           after == IterateNMonths(mortgage, 12)
       IN  /\ unit' = [unit EXCEPT
                          !.balance_tracker.mortgage_principal =
                              IF ~unit.goal
                              THEN @
                              ELSE IF unit.active
                                   THEN [@ EXCEPT ![k] =
                                            mortgage.house_cost
                                                - mortgage.principal_remaining]
                                   ELSE [@ EXCEPT ![k] = 0],
                          !.year = @ + 1,
                          !.years_left = @ - 1,
                          !.pc = "year"]
           /\ mortgage' = IF unit.goal /\ unit.active
                          THEN [mortgage EXCEPT
                                   !.principal_remaining =
                                       after.principal_remaining,
                                   !.interest_paid = after.interest_paid]
                          ELSE mortgage
           /\ call' = [NoCall EXCEPT !.name = "end_year", !.arg = unit.year,
                                     !.none = TRUE, !.pre = mortgage]
    /\ UNCHANGED <<persons, history, solver, taxes, payoff, account>>

HouseholdNext ==
    \/ \E m \in HouseholdMortgages : HousePurchase(m)
    \/ \E n \in 1 .. MaxYears : IncrementNYearsCall(n)
    \/ IncrementNYearsReturn
    \/ BeginYear
    \/ BeginContribution
    \/ ShortfallPass
    \/ Allocate
    \/ RollForwardPerson
    \/ EndYear

SpecHousehold == HouseholdInit /\ [][HouseholdNext]_vars

\* The interpreter runs increment_n_years as long as it has a next step.
FairSpecHousehold ==
    /\ SpecHousehold
    /\ WF_vars(IncrementNYearsReturn \/ BeginYear \/ BeginContribution
                   \/ ShortfallPass \/ Allocate \/ RollForwardPerson
                   \/ EndYear)

\* What a person holds in the three accounts withdraw_cash draws on.
Holdings(p) == p.nra.balance + p.tfsa.balance + p.rrsp.balance

\* C15: FinancialUnit.__withdraw_cash(amount) is atomic.  When the persons'
\* withdrawable cash sums to less than amount it returns 0 and no person
\* changes; otherwise it returns amount, person i releases
\* amount * capacity_i / total_capacity, and what the persons release sums
\* to amount (to within the rounding of the shares to whole dollars).
C15_HouseholdWithdrawalIsAtomic ==
    (call.name = "__withdraw_cash")
        => LET before == call.pre
               cash == HouseholdWithdrawableCash(before, TRUE)
               total == SumOf(cash, Len(before))
           IN  IF total < call.arg
               THEN /\ history.raised = "none"
                    /\ call.ret = 0
                    /\ persons = before
               ELSE /\ history.raised = "none"
                    /\ call.ret = call.arg
                    /\ \A i \in 1 .. Len(before) :
                           Holdings(before[i]) - Holdings(persons[i])
                               = (cash[i] * call.arg) \div total
                    /\ Abs(call.gain - call.arg) < Len(before)

\* C16: over increment_n_years the MortgageGoal is active only after the
\* household released the whole down payment (history.released, to within
\* the rounding of the persons' shares); an active goal stays active; the
\* persons release money for the down payment in at most one household
\* withdrawal; and while the goal is inactive the mortgage's principal and
\* interest paid do not change.
C16_MortgageGoalActivatesOnce ==
    /\ [](unit.active
              => /\ history.down_payments = 1
                 /\ Abs(history.released - mortgage.down_payment)
                        < Len(persons))
    /\ [](history.down_payments <= 1)
    /\ [][unit.active => unit'.active]_vars
    /\ [][(unit.goal /\ ~unit.active)
              => /\ mortgage'.principal_remaining
                        = mortgage.principal_remaining
                 /\ mortgage'.interest_paid = mortgage.interest_paid]_vars

\* A couple whose first attempt to buy was refused, whose second attempt
\* released the down payment, and whose mortgage has since run for a year.
C16_Witness ==
    /\ unit.active
    /\ history.down_payments = 1
    /\ Len(persons) = 2
    /\ mortgage.interest_paid > 0
    /\ unit.pc = "idle"
    /\ unit.balance_tracker.mortgage_principal[
           Len(unit.balance_tracker.mortgage_principal)] > 0

\* C17: when a pass of the shortfall loop asks the person for a withdrawal
\* that is refused (withdraw_cash returns 0 while net_positive < 0), the
\* year's computation ends with the error Unaffordable raised to the caller
\* of increment_n_years.
C17_RefusedWithdrawalEndsUnaffordable ==
    history.refused
        ~> (unit.pc = "raised" /\ history.raised = "Unaffordable")

\* C18: at the year boundaries of increment_n_years every person's age
\* minus the age at construction equals the household's year minus its
\* initial year; when the calls increment_n_years(n) have returned the year
\* is the initial year plus the years asked; and the roll-forward of a
\* person raises the person's age by exactly 1 and no other person's.
C18_YearAndAgeAdvanceTogether ==
    /\ [](unit.pc \in {"idle", "year"}
              => \A i \in 1 .. Len(persons) :
                     persons[i].age - history.init_ages[i]
                         = unit.year - unit.init_year)
    /\ [](unit.pc = "idle" => unit.year = unit.init_year + history.asked)
    /\ [][call'.name = "roll_forward"
              => \A i \in 1 .. Len(persons) :
                     persons'[i].age
                         = persons[i].age
                               + (IF i = call'.arg THEN 1 ELSE 0)]_vars

\* increment_n_years(2), or two calls of increment_n_years(1), have
\* returned for a couple.
C18_Witness ==
    /\ unit.pc = "idle"
    /\ history.asked = 2
    /\ unit.year = unit.init_year + 2
    /\ Len(persons) = 2
    /\ persons[2].age = history.init_ages[2] + 2

\* C19: the end-of-year roll-forward of a person whose age is at or after
\* retirement_age leaves the person with salary 0; the roll-forward of a
\* younger person multiplies the salary by 1 + annual_salary_increase.
C19_SalaryEndsAtRetirement ==
    (call.name = "roll_forward")
        => LET before == call.pre[call.arg]
               after == persons[call.arg]
           IN  IF before.age >= before.settings.retirement_age
               THEN after.salary = 0
               ELSE after.salary
                        = Grow(before.salary,
                               before.settings.annual_salary_increase)

\* C20: at the end of every simulated year the balance history of the
\* household holds one entry per simulated year, keyed by the consecutive
\* years from the initial year on; the last entry's emergency fund, TFSA,
\* RRSP and non-registered values are the sums of the persons' balances at
\* the end of the year; and its mortgage value is the house cost minus the
\* remaining principal (before or after the year's twelve payments) when
\* the goal is active, and 0 otherwise.
C20_BalanceHistoryMatchesYearEnd ==
    (call.name = "end_year")
        => LET bt == unit.balance_tracker
               k == Len(bt.years)
               n == Len(persons)
           IN  /\ k = unit.year - unit.init_year
               /\ \A j \in 1 .. k : bt.years[j] = unit.init_year + j - 1
               /\ bt.emergency_fund[k]
                      = SumOf([i \in 1 .. n |->
                                   persons[i].emergency_fund.balance], n)
               /\ bt.tfsa_balance[k]
                      = SumOf([i \in 1 .. n |-> persons[i].tfsa.balance], n)
               /\ bt.rrsp_balance[k]
                      = SumOf([i \in 1 .. n |-> persons[i].rrsp.balance], n)
               /\ bt.nra_balance[k]
                      = SumOf([i \in 1 .. n |-> persons[i].nra.balance], n)
               /\ IF unit.goal /\ unit.active
                  THEN bt.mortgage_principal[k]
                           \in {mortgage.house_cost
                                    - call.pre.principal_remaining,
                                mortgage.house_cost
                                    - mortgage.principal_remaining}
                  ELSE bt.mortgage_principal[k] = 0

(***************************************************************************)
(* Two households and two persons of one process (src/financial_unit.py,  *)
(* src/person.py).  FinancialUnit._expenses, _children, _balance_tracker   *)
(* and _settings, and Person._settings, are attributes of the class: no    *)
(* method rebinds the first three, so every household reads and appends to *)
(* the object of the class; the settings setter binds an object of the     *)
(* instance (`own`), and until then the getter returns the object of the   *)
(* class.  `unit` holds the objects of FinancialUnit and the households,   *)
(* `persons` the object of Person and the persons.  The households have no *)
(* persons, so that increment_n_years is the tracker's new entry and the   *)
(* next year.                                                              *)
(***************************************************************************)

\* Calls made on the households and persons in one behaviour.
MaxIsolationCalls == 3

\* Expense.__init__(amount, initial_year, recurrance)
NewExpense(amount, initial_year, recurrance) ==
    [amount |-> amount, initial_year |-> initial_year,
     recurrance |-> recurrance]

\* FinancialUnit.Settings()
NewHouseholdSettings == [pay_house_down_asap |-> TRUE]

Instances == {1, 2}

IsolationYears == {2021, 2023}

\* What the settings getter of an instance returns.
SettingsOf(class_settings, instance) ==
    IF instance.own = Unused THEN class_settings ELSE instance.own

IsolationInit ==
    /\ taxes = Unused
    /\ payoff = Unused
    /\ account = Unused
    /\ solver = Unused
    /\ mortgage = Unused
    /\ call = NoCall
    /\ history = [calls |-> 0]
    /\ unit = [expenses |-> <<>>, children |-> <<>>,
               balance_tracker |-> NewBalanceTracker,
               settings |-> NewHouseholdSettings,
               households |-> <<[year |-> 2022, own |-> Unused],
                                [year |-> 2022, own |-> Unused]>>]
    /\ persons = [settings |-> PersonSettings(TRUE, 65),
                  persons |-> <<[own |-> Unused], [own |-> Unused]>>]

\* The bookkeeping of one call on instance h.
IsolationCall(name, h) ==
    /\ history.calls < MaxIsolationCalls
    /\ history' = [history EXCEPT !.calls = @ + 1]
    /\ call' = [NoCall EXCEPT !.name = name, !.arg = h, !.none = TRUE]
    /\ UNCHANGED <<taxes, mortgage, payoff, account, solver>>

\* FinancialUnit.add_one_time_payment(payment_amount, year_paid)
AddOneTimePayment(h, payment_amount, year_paid) ==
    /\ IsolationCall("add_one_time_payment", h)
    /\ unit' = [unit EXCEPT !.expenses =
                   Append(@, NewExpense(payment_amount, year_paid, 0))]
    /\ UNCHANGED persons

\* FinancialUnit.add_recurring_cost(payment_amount, year_first_payment,
\* period_n_years)
AddRecurringCost(h, payment_amount, year_first_payment, period_n_years) ==
    /\ IsolationCall("add_recurring_cost", h)
    /\ unit' = [unit EXCEPT !.expenses =
                   Append(@, NewExpense(payment_amount, year_first_payment,
                                        period_n_years))]
    /\ UNCHANGED persons

\* FinancialUnit.new_child(year_have_child)
NewChild(h, year_have_child) ==
    /\ IsolationCall("new_child", h)
    /\ unit' = IF year_have_child < unit.households[h].year
               THEN unit
               ELSE [unit EXCEPT !.children = Append(@, year_have_child)]
    /\ UNCHANGED persons

\* household.settings.pay_house_down_asap = value
SetPayHouseDownAsap(h, value) ==
    /\ IsolationCall("settings_change", h)
    /\ unit' = IF unit.households[h].own = Unused
               THEN [unit EXCEPT !.settings.pay_house_down_asap = value]
               ELSE [unit EXCEPT
                        !.households[h].own.pay_house_down_asap = value]
    /\ UNCHANGED persons

\* household.settings = FinancialUnit.Settings()
AssignHouseholdSettings(h) ==
    /\ IsolationCall("settings_assignment", h)
    /\ unit' = [unit EXCEPT !.households[h].own = NewHouseholdSettings]
    /\ UNCHANGED persons

\* FinancialUnit.increment_n_years(1) of a household without persons and
\* without a mortgage goal.
IncrementOneYear(h) ==
    /\ IsolationCall("increment_n_years", h)
    /\ unit' = [unit EXCEPT
                   !.balance_tracker =
                       PrepareNextIteration(@, unit.households[h].year),
                   !.households[h].year = @ + 1]
    /\ UNCHANGED persons

\* person.settings.retirement_age = value
SetRetirementAge(h, value) ==
    /\ IsolationCall("person_settings_change", h)
    /\ persons' = IF persons.persons[h].own = Unused
                  THEN [persons EXCEPT !.settings.retirement_age = value]
                  ELSE [persons EXCEPT
                           !.persons[h].own.retirement_age = value]
    /\ UNCHANGED unit

\* person.settings = Person.Settings()
AssignPersonSettings(h) ==
    /\ IsolationCall("person_settings_assignment", h)
    /\ persons' = [persons EXCEPT
                      !.persons[h].own = PersonSettings(TRUE, 65)]
    /\ UNCHANGED unit

IsolationNext ==
    \/ \E h \in Instances, y \in IsolationYears :
           AddOneTimePayment(h, 100, y)
    \/ \E h \in Instances, y \in IsolationYears :
           AddRecurringCost(h, 50, y, 2)
    \/ \E h \in Instances, y \in IsolationYears : NewChild(h, y)
    \/ \E h \in Instances : SetPayHouseDownAsap(h, FALSE)
    \/ \E h \in Instances : AssignHouseholdSettings(h)
    \/ \E h \in Instances : IncrementOneYear(h)
    \/ \E h \in Instances : SetRetirementAge(h, 60)
    \/ \E h \in Instances : AssignPersonSettings(h)

SpecIsolation == IsolationInit /\ [][IsolationNext]_vars

\* What household h can observe of its expense list, scheduled children,
\* balance history and settings.
HouseholdView(h) ==
    [expenses |-> unit.expenses, children |-> unit.children,
     balance_tracker |-> unit.balance_tracker,
     settings |-> SettingsOf(unit.settings, unit.households[h])]

\* The settings of person h.
PersonView(h) == SettingsOf(persons.settings, persons.persons[h])

\* C21: a call on one household leaves the other household's expense list,
\* scheduled children, balance history and settings unchanged, and a
\* settings change on one person leaves the other person's settings
\* unchanged.
C21_InstancesAreIsolated ==
    [][\A h \in Instances :
           (call'.arg # h) => /\ HouseholdView(h)' = HouseholdView(h)
                              /\ PersonView(h)' = PersonView(h)]_vars

\* -net_positive as the next pass of the shortfall loop computes it for
\* the person whose turn it is.
Shortfall ==
    LET p == persons[unit.person_i]
        bt_income == p.salary + p.yearly_investment_taxable_income
        at_income == bt_income - TaxPayableOn(bt_income)
                         - EiContribution(bt_income)
                         - CppContribution(bt_income)
    IN  AnnualLivingExpenses(unit, mortgage).ret \div Len(persons)
            - at_income - unit.withdrawn_cash

\* The shortfall loop is about to make a pass for a person whose
\* withdrawable cash, after tax and with the retirement accounts, covers
\* the shortfall.
CoversShortfall ==
    /\ unit.pc = "shortfall"
    /\ Shortfall > 0
    /\ WithdrawableCash(persons[unit.person_i], TRUE, TRUE) >= Shortfall

\* C22: the shortfall loop of a person whose withdrawable cash covers the
\* shortfall ends and goes on to the allocation; it ends with
\* net_positive = at_income + withdrawn_cash - share of the expenses >= 0;
\* and no pass lowers withdrawn_cash.
C22_CoveredShortfallLoopEnds ==
    /\ CoversShortfall ~> (unit.pc = "allocate")
    /\ []((call.name = "shortfall_pass" /\ unit.pc = "allocate")
              => /\ unit.net_positive >= 0
                 /\ unit.net_positive
                        = unit.at_income + unit.withdrawn_cash - call.gain)
    /\ [][call'.name = "shortfall_pass"
              => unit'.withdrawn_cash >= unit.withdrawn_cash]_vars

\* C23: the call of rrsp_before_tax_calc made by __rrsp_contribution, with
\* the after-tax income left after tax, EI and CPP, returns a finite value g
\* that meets the tolerance of its loop:
\* ||AT_original - (g - tax(g))| - AT_deduction| <= 0.1.
C23_WaterfallSolverConverges ==
    (call.name = "__calculate_person_contribution")
        => LET solved == unit.alloc.rrsp.solved
               A == unit.at_income * DimesPerDollar
               D == unit.alloc.rrsp.RRSP_AT_contribution * DimesPerDollar
               g == solved.ret
           IN  /\ ~solved.inf
               /\ Abs(Abs(A - (g - TaxOwed(g))) - D) <= Tolerance

\* C24: in the emergency fund step net_positive is >= 0; a fund under its
\* target receives min(target - balance, net_positive) and the remaining
\* balance is net_positive minus the deposit; a fund at or over its target
\* releases balance - target, which is added to the remaining balance;
\* afterwards the fund is not over its target and the remaining balance is
\* >= 0.
C24_EmergencyFundStep ==
    (call.name = "__calculate_person_contribution")
        => LET ef == unit.alloc.ef
               net == call.arg
               before == call.pre[unit.person_i].emergency_fund.balance
               after == ef.person.emergency_fund.balance
           IN  /\ net >= 0
               /\ IF before < ef.target
                  THEN /\ after - before = Min(ef.target - before, net)
                       /\ ef.remaining_balance = net - (after - before)
                  ELSE /\ before - after = before - ef.target
                       /\ ef.remaining_balance = net + (before - ef.target)
               /\ after <= ef.target
               /\ ef.remaining_balance >= 0

\* A fund under its target was filled up to the target with cash to spare.
C24_Witness ==
    /\ call.name = "__calculate_person_contribution"
    /\ call.pre[unit.person_i].emergency_fund.balance < unit.alloc.ef.target
    /\ unit.alloc.ef.person.emergency_fund.balance = unit.alloc.ef.target
    /\ unit.alloc.ef.remaining_balance > 0

\* C25: in the TFSA step, with a mortgage goal whose house is not paid and
\* allow_tfsa_withdrawal off, the TFSA receives
\* min(contribution_room, remaining_contribution_retirement,
\* remaining_balance); otherwise it receives min(contribution_room,
\* remaining_balance); the remaining balance decreases by what the account
\* accepted, and that is all the step changes of the TFSA balance.
C25_TfsaStep ==
    (call.name = "__calculate_person_contribution")
        => LET a == unit.alloc
               p == a.ef.person
               retirement == RetirementContribution(call.pre[unit.person_i],
                                                    unit.at_income)
               accepted == a.tfsa.person.tfsa.balance - p.tfsa.balance
               limited == /\ unit.goal
                          /\ ~IsHousePaid(a.mortgage)
                          /\ ~p.settings.allow_tfsa_withdrawal
           IN  /\ accepted
                      = IF limited
                        THEN Min(p.tfsa.contribution_room,
                                 Min(retirement, a.ef.remaining_balance))
                        ELSE Min(p.tfsa.contribution_room,
                                 a.ef.remaining_balance)
               /\ a.tfsa.remaining_balance
                      = a.ef.remaining_balance - accepted
               /\ a.tfsa.person.tfsa.contribution_room
                      = p.tfsa.contribution_room - accepted

\* With an unpaid mortgage and allow_tfsa_withdrawal off the TFSA took the
\* retirement contribution, less than the room and less than the cash.
C25_Witness ==
    /\ call.name = "__calculate_person_contribution"
    /\ unit.goal
    /\ ~IsHousePaid(unit.alloc.mortgage)
    /\ ~unit.alloc.ef.person.settings.allow_tfsa_withdrawal
    /\ unit.alloc.tfsa.person.tfsa.balance
           - unit.alloc.ef.person.tfsa.balance
           = RetirementContribution(call.pre[unit.person_i], unit.at_income)
    /\ unit.alloc.tfsa.remaining_balance > 0
    /\ unit.alloc.tfsa.person.tfsa.contribution_room > 0

\* C26: in the RRSP step the desired after-tax contribution is
\* min(contribution_room, remaining_contribution_retirement,
\* remaining_balance) with a mortgage goal whose house is not paid, and
\* min(contribution_room, remaining_balance) in every other case.
C26_RrspDesiredContribution ==
    (call.name = "__calculate_person_contribution")
        => LET a == unit.alloc
               room == a.tfsa.person.rrsp.contribution_room
           IN  a.rrsp.RRSP_AT_contribution
                   = IF unit.goal /\ ~IsHousePaid(a.mortgage)
                     THEN Min(room,
                              Min(a.tfsa.remaining_contribution_retirement,
                                  a.tfsa.remaining_balance))
                     ELSE Min(room, a.tfsa.remaining_balance)

\* C27: in the RRSP step, when the account accepts less than the before-tax
\* amount requested, the tax saved on the part not accepted,
\* tax(bt_income - accepted) - tax(bt_income - requested), is added to the
\* remaining balance; when the deposit is accepted in full the remaining
\* balance decreases by exactly the desired after-tax contribution.
C27_RrspRefundsTaxOnShortfall ==
    (call.name = "__calculate_person_contribution" /\ ~unit.alloc.rrsp.solved.inf)
        => LET a == unit.alloc
               requested == unit.bt_income
                                - a.rrsp.solved.ret \div DimesPerDollar
               accepted == a.rrsp.person.rrsp.balance
                               - a.tfsa.person.rrsp.balance
               refund == IF accepted < requested
                         THEN TaxPayableOn(unit.bt_income - accepted)
                                  - TaxPayableOn(unit.bt_income - requested)
                         ELSE 0
           IN  a.rrsp.remaining_balance
                   = a.tfsa.remaining_balance + refund
                         - a.rrsp.RRSP_AT_contribution

\* C28: between two household years every child scheduled with
\* new_child(Y) for a year Y already simulated is in the living expenses
\* exactly once, at the age year - Y (added once in year Y, advanced by one
\* in each year simulated since), and no other child is.
C28_ChildrenAddedOnceAgedOnce ==
    (unit.pc \in {"idle", "year"})
        => LET ages == unit.living_expenses.children_ages
               born == {i \in DOMAIN unit.children :
                            unit.children[i] < unit.year}
           IN  /\ Len(ages) = Cardinality(born)
               /\ \A i \in born :
                      Cardinality({j \in DOMAIN ages :
                                       ages[j] = unit.year - unit.children[i]})
                          = Cardinality({k \in born :
                                             unit.children[k]
                                                 = unit.children[i]})

\* C29: every person's tfsa_retirement_portion is a fraction between 0 and
\* 1, and no call that updates it ends in a division by zero.
C29_RetirementPortionIsFraction ==
    /\ history.raised # "ZeroDivisionError"
    /\ \A i \in DOMAIN persons :
           /\ persons[i].tfsa_retirement_portion >= 0
           /\ persons[i].tfsa_retirement_portion <= PortionUnit

\* C30: one run of the contributions of a person conserves the year's net
\* cash: the net deposit into the emergency fund, the amount the TFSA
\* accepted, the after-tax cost of what the RRSP accepted (the desired
\* after-tax contribution less the tax saved on the part not accepted;
\* nothing when nothing was deposited), the additional payment on the
\* mortgage and the deposit into the non-registered account add up to
\* net_positive, and the last four are not negative.
C30_ContributionsConserveCash ==
    (call.name = "__calculate_person_contribution")
        => LET a == unit.alloc
               before == call.pre[unit.person_i]
               ef_deposit == a.ef.person.emergency_fund.balance
                                 - before.emergency_fund.balance
               tfsa_accepted == a.tfsa.person.tfsa.balance
                                    - a.ef.person.tfsa.balance
               rrsp_accepted == a.rrsp.person.rrsp.balance
                                    - a.tfsa.person.rrsp.balance
               requested == unit.bt_income
                                - a.rrsp.solved.ret \div DimesPerDollar
               rrsp_cost ==
                   IF rrsp_accepted = 0
                   THEN 0
                   ELSE a.rrsp.RRSP_AT_contribution
                            - (IF rrsp_accepted < requested
                               THEN TaxPayableOn(unit.bt_income - rrsp_accepted)
                                        - TaxPayableOn(unit.bt_income - requested)
                               ELSE 0)
           IN  /\ ef_deposit + tfsa_accepted + rrsp_cost
                      + a.additional_payment + call.ret = call.arg
               /\ tfsa_accepted >= 0
               /\ rrsp_cost >= 0
               /\ a.additional_payment >= 0
               /\ call.ret >= 0

====
